---- MODULE Spec2Model ----
(***************************************************************************)
(* Model of iflow2api's multi-account routing core: ProxyManager           *)
(* (proxy_manager.py), the per-account upstream client IFlowProxy          *)
(* (proxy.py) and the retryability classifier (resilience.py).             *)
(*                                                                         *)
(* The gateway runs on one asyncio event loop.  A coroutine runs without   *)
(* interruption until it awaits something that really suspends; the        *)
(* variable cur names the request whose coroutine is running (0: the loop  *)
(* is idle and may resume any ready coroutine).  Code between two          *)
(* suspension points is split into several steps only for readability:     *)
(* while cur = r no other request, and no external event, can step.        *)
(***************************************************************************)
EXTENDS Integers, Sequences, FiniteSets, TLC

\* ---------------------------------------------------------------- bounds
MaxWrites == 1      \* external writes of the routing file
MaxKeyLen == 6      \* length of an account credential

\* ------------------------------------------------------------ parameters
Accounts == {"A", "B"}
Reqs == {1, 2}
NoAcct == "-"
NoExc == "-"
NoToken == ""           \* no Authorization header (None from _extract_bearer_token)
Legacy == "__default__" \* the key of the fallback client in _proxies

\* ----------------------------------------------------- routing documents
\* IFlowUpstreamAccount, ResilienceConfig, ApiKeyRoute, KeyRoutingConfig.
Acc(en, mc, rt) ==
    [enabled |-> en, max_concurrency |-> mc, oauth_refresh_token |-> rt]

Res(en, th, cd, ra, bo, codes) ==
    [enabled |-> en, failure_threshold |-> th, cool_down_seconds |-> cd,
     retry_attempts |-> ra, retry_backoff_ms |-> bo, retry_status_codes |-> codes]

PoolRoute(ids, strat) == [account |-> NoAcct, accounts |-> ids, strategy |-> strat]

SingleRoute(id) == [account |-> id, accounts |-> <<>>, strategy |-> "least_busy"]

\* KeyRoutingConfig.default = None.
NoRoute == [account |-> NoAcct, accounts |-> <<>>, strategy |-> "-"]

\* AuthConfig.
Auth(en, rq) == [enabled |-> en, required |-> rq]

\* KeyRoutingConfig.keys: empty, or one client key "k1".
NoKeys == [t \in {} |-> NoRoute]

OneKey(route) == [t \in {"k1"} |-> route]

\* The documents the routing file can hold.  Each passes validate_routes.
\* The first four and the last map no client key and leave auth off (the
\* last has every account disabled); the others map the client key "k1".
Docs ==
    << [auth |-> Auth(FALSE, FALSE), keys |-> NoKeys,
        accounts |-> [a \in {"A", "B"} |-> Acc(TRUE, 1, FALSE)],
        default |-> PoolRoute(<<"A", "B">>, "least_busy"),
        resilience |-> Res(TRUE, 2, 2, 1, 0, {503})],
       [auth |-> Auth(FALSE, FALSE), keys |-> NoKeys,
        accounts |-> [a \in {"A", "B"} |-> Acc(TRUE, IF a = "A" THEN 2 ELSE 0, TRUE)],
        default |-> PoolRoute(<<"A", "B">>, "round_robin"),
        resilience |-> Res(TRUE, 1, 1, 1, 200, {503, 439})],
       [auth |-> Auth(FALSE, FALSE), keys |-> NoKeys,
        accounts |-> [a \in {"A"} |-> Acc(TRUE, 1, TRUE)],
        default |-> SingleRoute("A"),
        resilience |-> Res(FALSE, 1, 1, 0, 0, {503})],
       [auth |-> Auth(FALSE, FALSE), keys |-> NoKeys,
        accounts |-> [a \in {"A", "B"} |-> Acc(a = "A", 1, FALSE)],
        default |-> PoolRoute(<<"A", "B", "A">>, "least_busy"),
        resilience |-> Res(TRUE, 2, 1, 0, 0, {503})],
       [auth |-> Auth(FALSE, FALSE), keys |-> OneKey(SingleRoute("B")),
        accounts |-> [a \in {"A", "B"} |-> Acc(TRUE, 1, a = "A")],
        default |-> SingleRoute("A"),
        resilience |-> Res(TRUE, 1, 1, 1, 0, {503, 439})],
       [auth |-> Auth(TRUE, FALSE), keys |-> OneKey(SingleRoute("B")),
        accounts |-> [a \in {"A", "B"} |-> Acc(TRUE, 0, FALSE)],
        default |-> PoolRoute(<<"A", "B">>, "round_robin"),
        resilience |-> Res(TRUE, 1, 1, 0, 200, {503})],
       [auth |-> Auth(TRUE, TRUE), keys |-> OneKey(SingleRoute("B")),
        accounts |-> [a \in {"A", "B"} |-> Acc(TRUE, 0, FALSE)],
        default |-> SingleRoute("A"),
        resilience |-> Res(FALSE, 1, 1, 0, 0, {503})],
       [auth |-> Auth(TRUE, FALSE), keys |-> OneKey(PoolRoute(<<"A", "B">>, "least_busy")),
        accounts |-> [a \in {"A", "B"} |-> Acc(TRUE, 0, FALSE)],
        default |-> NoRoute,
        resilience |-> Res(FALSE, 1, 1, 0, 0, {503})],
       [auth |-> Auth(FALSE, FALSE), keys |-> NoKeys,
        accounts |-> [a \in {"A", "B"} |-> Acc(FALSE, 0, FALSE)],
        default |-> PoolRoute(<<"A", "B">>, "round_robin"),
        resilience |-> Res(FALSE, 1, 1, 0, 0, {503})] >>

DocIds == 1..Len(Docs)

\* A deployment either maps client keys or does not: the documents written
\* to one routing file are all of the same kind.
Keyed(d) == DOMAIN Docs[d].keys # {}

PlainDocs == {d \in DocIds : ~Keyed(d)}

KeyedDocs == {d \in DocIds : Keyed(d)}

\* The Authorization header of a request: none, the mapped key, an unmapped
\* one.  Clients of a deployment without client keys send none.
Presented(d) == IF Keyed(d) THEN {NoToken, "k1", "zz"} ELSE {NoToken}

\* The keys of _proxies: the account ids and the fallback client's key.
ProxyKeys == Accounts \cup {Legacy}

\* ---------------------------------------------------------------- state
VARIABLES
    cur,            \* the running coroutine's request, 0 when the loop is idle
    fileDoc,        \* the routing file: the document it holds
    fileMtime,      \* the routing file: st_mtime
    routing,        \* ProxyManager._routing (a document id)
    routingMtime,   \* ProxyManager._routing_mtime
    epoch,          \* how many times the caches have been cleared
    proxies,        \* ProxyManager._proxies: its keys in insertion order
    pobj,           \* the IFlowProxy objects, by account and generation
    rrIndex,        \* ProxyManager._rr_index values (0 where absent)
    rrKeys,         \* ProxyManager._rr_index keys
    health,         \* ProxyManager._account_state values
    hasState,       \* ProxyManager._account_state keys
    rlock,          \* ProxyManager._refresh_locks: holder per account, 0 free
    req,            \* per request: the coroutine's position and locals
    gh,             \* per request: history of what the request did
    probe           \* the balancer exercised on its own: its inputs, its picks

shared == <<probe, fileDoc, fileMtime, routing, routingMtime, epoch,
            proxies, pobj, rrIndex, rrKeys, health, hasState, rlock>>

vars == <<cur, probe, fileDoc, fileMtime, routing, routingMtime, epoch,
          proxies, pobj, rrIndex, rrKeys, health, hasState, rlock, req, gh>>

Cfg == Docs[routing]

Epochs == 0..MaxWrites

\* ------------------------------------------------------- pure functions
Range(s) == {s[k] : k \in 1..Len(s)}

Min(a, b) == IF a < b THEN a ELSE b

Max(a, b) == IF a > b THEN a ELSE b

\* The exceptions, by name.  "e<n>": an error whose response has status n
\* (httpx.HTTPStatusError, IFlowUpstreamError); "e435m": status 435 with a
\* "model not supported" message; "timeout", "connerr", "readerr", "neterr":
\* httpx.TimeoutException, ConnectError, ReadError, another NetworkError;
\* "timeout400", "neterr503": such an exception with a response attached;
\* "valueerror", "keyerror", "stopiter": exceptions without a response.
ExcNames ==
    {"e503", "e439", "e400", "e429", "e435m",
     "timeout", "connerr", "readerr", "neterr", "timeout400", "neterr503",
     "valueerror", "keyerror", "stopiter"}

\* isinstance(exc, (httpx.TimeoutException, httpx.ConnectError,
\* httpx.ReadError, httpx.NetworkError)).
NetworkExceptions == {"timeout", "connerr", "readerr", "neterr", "timeout400", "neterr503"}

\* resilience.get_http_status_code: 0 stands for None.
get_http_status_code(e) ==
    CASE e = "e503" -> 503
      [] e = "e439" -> 439
      [] e = "e400" -> 400
      [] e = "e429" -> 429
      [] e = "e435m" -> 435
      [] e = "timeout400" -> 400
      [] e = "neterr503" -> 503
      [] OTHER -> 0

\* A variant of is_retryable_exception that looks at the status only.
is_retryable_status_only(e, codes) ==
    get_http_status_code(e) # 0 /\ get_http_status_code(e) \in codes

\* resilience.is_retryable_exception.
is_retryable_exception(e, codes) ==
    \/ e \in NetworkExceptions
    \/ get_http_status_code(e) # 0 /\ get_http_status_code(e) \in codes

\* proxy_manager._is_upstream_token_expired (status 439).
IsUpstreamTokenExpired(e) == get_http_status_code(e) = 439

\* proxy_manager._is_model_not_supported_error: needs a status in
\* {400, 404, 435} and a "model ... not support" message.
IsModelNotSupported(e) == e = "e435m"

\* The fields IFlowUpstreamAccount declares (routing.py 28-39).
AccountFields ==
    {"api_key", "base_url", "max_concurrency", "enabled", "label", "created_at",
     "auth_type", "oauth_access_token", "oauth_refresh_token", "oauth_expires_at",
     "last_refresh_at"}

\* pydantic's BaseModel.__setattr__: assigning a field the model does not
\* declare raises ValueError.
CanAssign(f) == f \in AccountFields

\* _refresh_account_oauth, lines 510-539, for exchange outcome x ("ok": the
\* collaborator returned tokens and an api key): "true" / "false" is the
\* value of refreshed, "raise" a ValueError leaving the function.
RefreshResult(x) ==
    LET tryOk == /\ x = "ok"
                 /\ \A f \in {"api_key", "auth_type", "oauth_access_token", "oauth_refresh_token",
                              "oauth_expires_at", "last_refresh_at", "refresh_failures",
                              "last_refresh_error"} : CanAssign(f)
        exceptOk == CanAssign("refresh_failures") /\ CanAssign("last_refresh_error")
    IN IF tryOk THEN "true" ELSE IF exceptOk THEN "false" ELSE "raise"

\* What the exchange with the OAuth collaborator can give.
Exchanges == {"ok", "neterr", "nokey"}

\* _AccountState().
ZeroState == [consecutive_failures |-> 0, circuit_open_until |-> 0, last_error |-> NoExc]

\* _AccountState.is_available: time.time() >= circuit_open_until.  The model
\* keeps circuit_open_until relative to the clock: the field holds
\* max(0, circuit_open_until - time.time()), in seconds.
IsAvailable(st) == 0 >= st.circuit_open_until

\* An IFlowProxy that does not exist (yet).
NoProxy == [exists |-> FALSE, cap |-> 0, value |-> 0, in_flight |-> 0, client |-> "none"]

\* IFlowProxy.__init__.
NewProxy(mc) == [exists |-> TRUE, cap |-> mc, value |-> mc, in_flight |-> 0, client |-> "none"]

\* The candidate lists a document can yield: the keys of _rr_index.
\* A variant of RouteCandidates that adds the other enabled accounts to a
\* single-account route.
RouteCandidatesWide(doc, route) ==
    LET ids == IF route.account # NoAcct
               THEN <<route.account>> \o
                    SelectSeq(<<"A", "B">>, LAMBDA a: a # route.account)
               ELSE route.accounts
    IN SelectSeq(ids, LAMBDA a: a \in DOMAIN doc.accounts /\ doc.accounts[a].enabled)

\* chat_completions, lines 606-612: the enabled accounts of a route.
RouteCandidates(doc, route) ==
    LET ids == IF route.account # NoAcct THEN <<route.account>> ELSE route.accounts
    IN SelectSeq(ids, LAMBDA a: a \in DOMAIN doc.accounts /\ doc.accounts[a].enabled)

Candidates(doc) == RouteCandidates(doc, doc.default)

\* The routes of a document.
RoutesOf(doc) == {doc.default} \cup {doc.keys[t] : t \in DOMAIN doc.keys}

\* Every key _rr_index can get: the candidate lists (_pick_account) and the
\* account lists of the routes (_resolve_upstream_from_route).
AllKeys ==
    UNION {{RouteCandidates(Docs[d], rt) : rt \in RoutesOf(Docs[d])} \cup
           {rt.accounts : rt \in RoutesOf(Docs[d])} : d \in DocIds}

\* A variant of ResolveRoute that looks the token up even with auth off.
ResolveRouteKeyed(doc, token) ==
    LET mapped == token # NoToken /\ token \in DOMAIN doc.keys
        rejected == doc.auth.enabled /\ ~mapped /\ doc.auth.required
        route == IF mapped THEN doc.keys[token] ELSE doc.default
    IN IF rejected THEN [kind |-> "reject", route |-> NoRoute]
       ELSE IF route = NoRoute THEN [kind |-> "none", route |-> NoRoute]
       ELSE [kind |-> "route", route |-> route]

\* A variant of ResolveRoute that rejects a missing token only.
ResolveRouteLax(doc, token) ==
    LET mapped == token # NoToken /\ token \in DOMAIN doc.keys
        keyed == doc.auth.enabled /\ mapped
        rejected == doc.auth.enabled /\ token = NoToken /\ doc.auth.required
        route == IF keyed THEN doc.keys[token] ELSE doc.default
    IN IF rejected THEN [kind |-> "reject", route |-> NoRoute]
       ELSE IF route = NoRoute THEN [kind |-> "none", route |-> NoRoute]
       ELSE [kind |-> "route", route |-> route]

\* chat_completions, lines 588-599 (and _resolve_route, 346-359): what the
\* token resolves to.  kind "reject": 401; "none": no route at all.
ResolveRoute(doc, token) ==
    LET mapped == token # NoToken /\ token \in DOMAIN doc.keys
        keyed == doc.auth.enabled /\ mapped
        rejected == doc.auth.enabled /\ ~mapped /\ doc.auth.required
        route == IF keyed THEN doc.keys[token] ELSE doc.default
    IN IF rejected THEN [kind |-> "reject", route |-> NoRoute]
       ELSE IF route = NoRoute THEN [kind |-> "none", route |-> NoRoute]
       ELSE [kind |-> "route", route |-> route]

\* A variant of Attempts without the raise to the number of candidates.
AttemptsBudget(res, stream, n) ==
    LET max_extra == IF res.enabled THEN res.retry_attempts ELSE 0
        a1 == 1 + (IF res.enabled /\ ~stream THEN max_extra ELSE 0)
        a2 == IF stream /\ res.enabled THEN Min(n, 1 + Min(1, max_extra)) ELSE a1
    IN Max(1, Min(n, IF a2 > 0 THEN a2 ELSE 1))

\* The attempt budget, proxy_manager.py lines 618-628.
Attempts(res, stream, n) ==
    LET max_extra == IF res.enabled THEN res.retry_attempts ELSE 0
        a1 == 1 + (IF res.enabled /\ ~stream THEN max_extra ELSE 0)
        a2 == IF stream /\ res.enabled THEN Min(n, 1 + Min(1, max_extra)) ELSE a1
        a3 == Max(1, Min(n, IF a2 > 0 THEN a2 ELSE 1))
    IN IF n > a3 THEN n ELSE a3

\* ------------------------------------------------------- request records
IdleReq ==
    [pc |-> "idle", stream |-> FALSE, cands |-> <<>>, strategy |-> "least_busy",
     attempts |-> 0, i |-> 0, tried |-> {}, acct |-> NoAcct, px |-> -1,
     backoff_ms |-> 0, exc |-> NoExc, last_exc |-> NoExc, oldp |-> <<>>,
     retried |-> FALSE, refreshed |-> "-", token |-> NoToken,
     ret |-> "-", result |-> "-"]

\* What a request has done so far (history only: the program reads none of it):
\*   log: <<account, upstream outcome, attempt>> of every call it dispatched;
\*   rf: the attempt (loop index) of every call of _refresh_account_oauth;
\*   recs: <<account, "success" | "failure">> of every health record it made;
\*   vers: the versions (mtimes) of _routing it has read;  doc: the document
\*   its route was resolved from;  reloaded: _routing was replaced while it
\*   ran;  first: the length of log when the first chunk of its stream was
\*   handed to the caller (0: none yet);  mid: how its committed stream ended;
\*   waited: it waited for the refresh lock;  exchanged: it performed an
\*   exchange with the OAuth collaborator;  kind, route: what its token
\*   resolved to (ResolveRoute).
IdleGh == [log |-> <<>>, rf |-> <<>>, recs |-> <<>>, vers |-> {}, doc |-> 0, reloaded |-> FALSE,
           waited |-> FALSE, first |-> 0, mid |-> NoExc, exchanged |-> FALSE,
           kind |-> "-", route |-> NoRoute]

\* Nothing is exercised on its own.
NoProbe == [cands |-> <<>>, strategy |-> "-", mode |-> "-", picks |-> <<>>]

Init ==
    /\ cur = 0
    /\ fileDoc \in PlainDocs
    /\ fileMtime = 0
    /\ routing = fileDoc
    /\ routingMtime = 0
    /\ epoch = 0
    /\ proxies = <<>>
    /\ pobj = [a \in ProxyKeys |-> [e \in Epochs |-> NoProxy]]
    /\ rrIndex = [k \in AllKeys |-> 0]
    /\ rrKeys = {}
    /\ health = [a \in Accounts |-> ZeroState]
    /\ hasState = {}
    /\ rlock = [a \in Accounts |-> 0]
    /\ req = [r \in Reqs |-> IdleReq]
    /\ gh = [r \in Reqs |-> IdleGh]
    /\ probe = NoProbe

\* ------------------------------------------------------ external events
\* The clock advances by one second: every open circuit is a second closer
\* to its circuit_open_until.
Tick ==
    /\ cur = 0
    /\ \E a \in Accounts : health[a].circuit_open_until > 0
    /\ health' = [a \in Accounts |->
                    [health[a] EXCEPT !.circuit_open_until = Max(0, @ - 1)]]
    /\ UNCHANGED <<cur, probe, fileDoc, fileMtime, routing, routingMtime, epoch,
                   proxies, pobj, rrIndex, rrKeys, hasState, rlock, req, gh>>

\* The admin surface (another process) rewrites the routing file.
FileWrite(d) ==
    /\ cur = 0
    /\ fileMtime < MaxWrites
    /\ d # fileDoc
    /\ Keyed(d) = Keyed(fileDoc)
    /\ fileDoc' = d
    /\ fileMtime' = fileMtime + 1
    /\ UNCHANGED <<cur, probe, routing, routingMtime, epoch, proxies, pobj,
                   rrIndex, rrKeys, health, hasState, rlock, req, gh>>

\* ------------------------------------------------------ health tracker
\* A variant of RecordSuccess that resets the counter only: the circuit and
\* the last error stay as they were.
RecordSuccessCounterOnly(st) == [st EXCEPT !.consecutive_failures = 0]

\* ProxyManager._record_success: the account's state afterwards.
RecordSuccess(st) ==
    [consecutive_failures |-> 0, circuit_open_until |-> 0, last_error |-> NoExc]

\* A variant of RecordFailure that opens the circuit one failure late.
RecordFailureLate(st, res, e) ==
    LET n == st.consecutive_failures + 1
    IN [consecutive_failures |-> n,
        circuit_open_until |->
            IF res.enabled /\ n > res.failure_threshold
            THEN 0 + res.cool_down_seconds
            ELSE st.circuit_open_until,
        last_error |-> e]

\* ProxyManager._record_failure: the account's state afterwards.
RecordFailure(st, res, e) ==
    LET n == st.consecutive_failures + 1
    IN [consecutive_failures |-> n,
        circuit_open_until |->
            IF res.enabled /\ n >= res.failure_threshold
            THEN 0 + res.cool_down_seconds
            ELSE st.circuit_open_until,
        last_error |-> e]

\* ------------------------------------------------------- load balancer
\* The proxy object the map holds for account a (NoProxy when it holds none).
MapProxy(a) == IF a \in Range(proxies) THEN pobj[a][epoch] ELSE NoProxy

\* A variant of LeastBusy that takes the first candidate of the pool.
LeastBusyFirst(pool) == pool[1]

\* The first candidate of pool with the least in-flight count (least_busy).
LeastBusy(pool) ==
    LET inflight(k) == MapProxy(pool[k]).in_flight
        best == CHOOSE k \in 1..Len(pool) :
                    /\ \A j \in 1..Len(pool) : inflight(k) <= inflight(j)
                    /\ \A j \in 1..(k - 1) : inflight(j) > inflight(k)
    IN pool[best]

\* A variant of Advance in which the write of the cursor is lost.
AdvanceLost(start, n) == start

\* self._rr_index[key] = (start + 1) % len(pool): lines 472 and 393.
Advance(start, n) == (start + 1) % n

\* A variant of PickPool that does not look at the health state.
PickPoolUntried(cands, exclude) ==
    LET untried == SelectSeq(cands, LAMBDA a: a \notin exclude)
    IN IF untried # <<>> THEN untried ELSE cands

\* ProxyManager._pick_account: the pool the choice is made from.
PickPool(cands, exclude) ==
    LET healthy == IF Cfg.resilience.enabled
                   THEN SelectSeq(cands, LAMBDA a:
                            IsAvailable(health[a]) /\ a \notin exclude)
                   ELSE <<>>
        untried == SelectSeq(cands, LAMBDA a: a \notin exclude)
    IN IF healthy # <<>> THEN healthy
       ELSE IF untried # <<>> THEN untried
       ELSE cands

\* A variant of PickAccount whose round-robin reads the cursor one ahead.
PickAccountSkip(cands, strategy, exclude) ==
    LET pool == PickPool(cands, exclude)
    IN IF strategy = "round_robin"
       THEN pool[((rrIndex[cands] + 1) % Len(pool)) + 1]
       ELSE LeastBusy(pool)

\* ProxyManager._pick_account: the account picked.
PickAccount(cands, strategy, exclude) ==
    LET pool == PickPool(cands, exclude)
    IN IF strategy = "round_robin"
       THEN pool[(rrIndex[cands] % Len(pool)) + 1]
       ELSE LeastBusy(pool)

\* ------------------------------------------------------------- requests
\* list(self._proxies.values()): the proxy objects of the map, in its order.
RECURSIVE WithEpoch(_, _)
WithEpoch(s, e) == IF s = <<>> THEN <<>> ELSE <<<<Head(s), e>>>> \o WithEpoch(Tail(s), e)

Active(r) == req[r].pc \notin {"idle", "done"}

DoneReq(res) == [IdleReq EXCEPT !.pc = "done", !.result = res]

\* Every request in progress has now lived through a replacement of _routing.
MarkReloaded == [q \in Reqs |-> IF Active(q) THEN [gh[q] EXCEPT !.reloaded = TRUE] ELSE gh[q]]

\* A chat-completions call arrives: ProxyManager.chat_completions is entered.
Start(r, s, t) ==
    /\ cur = 0
    /\ req[r].pc = "idle"
    /\ r = 1 \/ req[1].pc # "idle"
    /\ cur' = r
    /\ req' = [req EXCEPT ![r] = [IdleReq EXCEPT !.pc = "reload", !.stream = s,
                                                !.token = t, !.ret = "route"]]
    /\ gh' = [gh EXCEPT ![r] = IdleGh]
    /\ UNCHANGED shared

\* ProxyManager._maybe_reload_routing up to the end of its locked block.
Reload(r) ==
    /\ cur = r
    /\ req[r].pc = "reload"
    /\ IF fileMtime <= routingMtime
       THEN /\ req' = [req EXCEPT ![r].pc = req[r].ret]
            /\ UNCHANGED <<cur, shared, gh>>
       ELSE /\ routing' = fileDoc
            /\ routingMtime' = fileMtime
            /\ epoch' = epoch + 1
            /\ proxies' = <<>>
            /\ rrIndex' = [k \in AllKeys |-> 0]
            /\ rrKeys' = {}
            /\ health' = [a \in Accounts |-> ZeroState]
            /\ hasState' = {}
            /\ req' = [req EXCEPT ![r].pc = "closing",
                                  ![r].oldp = WithEpoch(proxies, epoch)]
            /\ gh' = MarkReloaded
            /\ UNCHANGED <<cur, probe, fileDoc, fileMtime, pobj, rlock>>

\* ProxyManager._maybe_reload_routing, the loop closing the old proxies:
\* IFlowProxy.close on the next one.  Closing an open client suspends.
CloseOld(r) ==
    /\ cur = r
    /\ req[r].pc = "closing"
    /\ IF req[r].oldp = <<>>
       THEN /\ req' = [req EXCEPT ![r].pc = req[r].ret]
            /\ UNCHANGED <<cur, shared, gh>>
       ELSE LET p == Head(req[r].oldp)
                open == pobj[p[1]][p[2]].client = "open"
            IN /\ pobj' = IF open
                          THEN [pobj EXCEPT ![p[1]][p[2]].client = "closed"]
                          ELSE pobj
               /\ req' = [req EXCEPT ![r].oldp = Tail(req[r].oldp),
                                     ![r].pc = IF open THEN "closing_s" ELSE "closing"]
               /\ cur' = IF open THEN 0 ELSE r
               /\ UNCHANGED <<probe, fileDoc, fileMtime, routing, routingMtime, epoch, proxies, rrIndex, rrKeys, health, hasState,
                              rlock, gh>>

\* The await of httpx's aclose returns.
CloseResume(r) ==
    /\ cur = 0
    /\ req[r].pc = "closing_s"
    /\ cur' = r
    /\ req' = [req EXCEPT ![r].pc = "closing"]
    /\ UNCHANGED <<shared, gh>>

\* chat_completions, lines 585-629: the token's route (or the 401), the
\* candidates, the budget.  Without a route, accounts or enabled candidates
\* the request goes to get_proxy_for_request, which reloads first.
Route(r) ==
    /\ cur = r
    /\ req[r].pc = "route"
    /\ LET res == ResolveRoute(Cfg, req[r].token)
           cands == RouteCandidates(Cfg, res.route)
       IN /\ IF res.kind = "reject"
             THEN /\ req' = [req EXCEPT ![r] = DoneReq("401")]
                  /\ cur' = 0
             ELSE IF res.kind = "none" \/ DOMAIN Cfg.accounts = {} \/ cands = <<>>
             THEN /\ req' = [req EXCEPT ![r].pc = "reload", ![r].ret = "fallback"]
                  /\ cur' = r
             ELSE /\ req' = [req EXCEPT ![r].pc = "pick",
                                        ![r].cands = cands,
                                        ![r].strategy = res.route.strategy,
                                        ![r].attempts = Attempts(Cfg.resilience, req[r].stream, Len(cands)),
                                        ![r].backoff_ms = IF Cfg.resilience.enabled
                                                          THEN Cfg.resilience.retry_backoff_ms ELSE 0]
                  /\ cur' = r
          /\ gh' = [gh EXCEPT ![r].vers = @ \cup {routingMtime}, ![r].doc = routing,
                              ![r].kind = res.kind, ![r].route = res.route]
    /\ UNCHANGED shared

\* _resolve_upstream_from_route, lines 376-403: the account of a pool route.
UpstreamOfPool(route) ==
    LET enabled == SelectSeq(route.accounts, LAMBDA a:
                       a \in DOMAIN Cfg.accounts /\ Cfg.accounts[a].enabled)
        c1 == IF enabled = <<>> THEN route.accounts ELSE enabled
        available == SelectSeq(c1, LAMBDA a: IsAvailable(health[a]))
        c2 == IF Cfg.resilience.enabled /\ available # <<>> THEN available ELSE c1
    IN [cands |-> c2,
        acct |-> IF route.strategy = "round_robin"
                 THEN c2[(rrIndex[route.accounts] % Len(c2)) + 1]
                 ELSE LeastBusy(c2)]

\* get_proxy_for_request after its reload (lines 774-795) and the call on
\* the client it returns: _resolve_route again, on the configuration as it
\* is now, then the cached or new client of the resolved account, or the
\* fallback client.  No health record, no failover; the upstream call made
\* on that client is not followed.
Fallback(r) ==
    /\ cur = r
    /\ req[r].pc = "fallback"
    /\ LET res == ResolveRoute(Cfg, req[r].token)
           pool == res.kind = "route" /\ res.route.account = NoAcct
           up == UpstreamOfPool(res.route)
           a == IF res.kind = "none" THEN Legacy
                ELSE IF pool THEN up.acct ELSE res.route.account
           rr == pool /\ res.route.strategy = "round_robin"
           mc == IF a \in DOMAIN Cfg.accounts THEN Cfg.accounts[a].max_concurrency ELSE 0
       IN IF res.kind = "reject"
          THEN /\ req' = [req EXCEPT ![r] = DoneReq("401")]
               /\ UNCHANGED <<proxies, pobj, rrIndex, rrKeys, hasState>>
          ELSE /\ req' = [req EXCEPT ![r] = DoneReq(IF a = Legacy THEN "fallback" ELSE "direct")]
               /\ rrIndex' = IF rr THEN [rrIndex EXCEPT ![res.route.accounts] = Advance(@, Len(up.cands))]
                             ELSE rrIndex
               /\ rrKeys' = IF rr THEN rrKeys \cup {res.route.accounts} ELSE rrKeys
               /\ hasState' = IF pool /\ Cfg.resilience.enabled
                              THEN hasState \cup Range(res.route.accounts) ELSE hasState
               /\ IF a \in Range(proxies)
                  THEN UNCHANGED <<proxies, pobj>>
                  ELSE /\ proxies' = Append(proxies, a)
                       /\ pobj' = [pobj EXCEPT ![a][epoch] = NewProxy(mc)]
    /\ cur' = 0
    /\ UNCHANGED <<probe, fileDoc, fileMtime, routing, routingMtime, epoch, health, rlock, gh>>

\* chat_completions, lines 633-636 and 731-733: the loop head.  When the
\* budget is spent the last error is raised; else _pick_account and
\* _get_or_create_account_proxy (with the client's _get_client) run.
Pick(r) ==
    /\ cur = r
    /\ req[r].pc = "pick"
    /\ IF req[r].i >= req[r].attempts
       THEN /\ req' = [req EXCEPT ![r] = DoneReq("err")]
            /\ cur' = 0
            /\ UNCHANGED <<shared, gh>>
       ELSE LET cands == req[r].cands
                pool == PickPool(cands, req[r].tried)
                a == PickAccount(cands, req[r].strategy, req[r].tried)
                rr == req[r].strategy = "round_robin"
                known == a \in DOMAIN Cfg.accounts
                create == known /\ a \notin Range(proxies)
                p0 == IF create THEN NewProxy(Cfg.accounts[a].max_concurrency)
                      ELSE pobj[a][epoch]
            IN /\ hasState' = IF Cfg.resilience.enabled
                              THEN hasState \cup Range(cands) ELSE hasState
               /\ rrIndex' = IF rr THEN [rrIndex EXCEPT ![cands] = Advance(@, Len(pool))]
                             ELSE rrIndex
               /\ rrKeys' = IF rr THEN rrKeys \cup {cands} ELSE rrKeys
               /\ gh' = [gh EXCEPT ![r].vers = @ \cup {routingMtime}]
               /\ IF ~known
                  THEN \* self._routing.accounts[account_id] raises KeyError.
                       /\ req' = [req EXCEPT ![r] = DoneReq("keyerror")]
                       /\ cur' = 0
                       /\ UNCHANGED <<proxies, pobj>>
                  ELSE /\ proxies' = IF create THEN Append(proxies, a) ELSE proxies
                       /\ pobj' = [pobj EXCEPT ![a][epoch] = [p0 EXCEPT !.client = "open"]]
                       /\ req' = [req EXCEPT ![r].acct = a,
                                             ![r].px = epoch,
                                             ![r].retried = FALSE,
                                             ![r].refreshed = "-",
                                             ![r].tried = @ \cup {a},
                                             ![r].pc = "acquire"]
                       /\ cur' = r
               /\ UNCHANGED <<probe, fileDoc, fileMtime, routing, routingMtime, epoch, health, rlock>>

\* The request's proxy object.
Px(r) == pobj[req[r].acct][req[r].px]

\* IFlowProxy._limit entered with a permit in hand (or no semaphore).
Enter(p) == [p EXCEPT !.value = IF p.cap > 0 THEN p.value - 1 ELSE p.value,
                      !.in_flight = p.in_flight + 1]

\* IFlowProxy._limit left: the finally block.
Leave(p) == [p EXCEPT !.value = IF p.cap > 0 THEN p.value + 1 ELSE p.value,
                      !.in_flight = p.in_flight - 1]

\* IFlowProxy._limit: a permit is free (or there is no semaphore).
CanEnter(p) == p.cap = 0 \/ p.value > 0

\* IFlowProxy.chat_completions / _stream_chat_completions reach _limit:
\* with a free permit the upstream call is issued, else the coroutine
\* waits on the semaphore.  Either way it suspends.
Acquire(r) ==
    /\ cur = r
    /\ req[r].pc = "acquire"
    /\ cur' = 0
    /\ IF CanEnter(Px(r))
       THEN /\ pobj' = [pobj EXCEPT ![req[r].acct][req[r].px] = Enter(Px(r))]
            /\ req' = [req EXCEPT ![r].pc = "call"]
       ELSE /\ req' = [req EXCEPT ![r].pc = "wait"]
            /\ UNCHANGED pobj
    /\ UNCHANGED <<probe, fileDoc, fileMtime, routing, routingMtime, epoch,
                   proxies, rrIndex, rrKeys, health, hasState, rlock, gh>>

\* A waiter on the semaphore gets a permit.  The client it holds may have
\* been closed by a reload meanwhile: httpx then raises RuntimeError at once.
WaitAcquire(r) ==
    /\ cur = 0
    /\ req[r].pc = "wait"
    /\ CanEnter(Px(r))
    /\ IF Px(r).client = "closed"
       THEN /\ req' = [req EXCEPT ![r].pc = "fail", ![r].exc = "closed"]
            /\ cur' = r
            /\ UNCHANGED pobj
       ELSE /\ pobj' = [pobj EXCEPT ![req[r].acct][req[r].px] = Enter(Px(r))]
            /\ req' = [req EXCEPT ![r].pc = "call"]
            /\ cur' = 0
    /\ UNCHANGED <<probe, fileDoc, fileMtime, routing, routingMtime, epoch,
                   proxies, rrIndex, rrKeys, health, hasState, rlock, gh>>

\* What the upstream can answer to a call (for a stream: to its first pull):
\* a good response, an empty stream, or an error with an HTTP status.
Errors == {"e503", "e439", "e400"}

\* The errors a call (or a first pull) can be answered with: those, and the
\* "model not supported" answer.
FirstErrors == Errors \cup {"e435m"}

Outcomes(stream) == {"ok"} \cup FirstErrors \cup (IF stream THEN {"empty"} ELSE {})

\* The upstream answers.  Non-streaming: IFlowProxy.chat_completions returns
\* or raises and chat_completions lines 649-666 run.  Streaming: the first
\* pull, lines 669-705; a first chunk commits the request to the account
\* and gen() is returned, the permit still held by the suspended generator.
Respond(r, o) ==
    /\ cur = 0
    /\ req[r].pc = "call"
    /\ o \in Outcomes(req[r].stream)
    \* With resilience enabled the handler treats "model not supported" as it
    \* treats a retryable status such as 503 (line 711), so that answer is
    \* drawn only while resilience is disabled.
    /\ o = "e435m" => ~Cfg.resilience.enabled
    /\ LET a == req[r].acct
           commit == req[r].stream /\ o = "ok"
           \* an empty stream on the retry after a refresh (line 682) is not
           \* caught by the handler of line 672: StopAsyncIteration reaches line 707
           stopiter == o = "empty" /\ req[r].retried
           success == o \in {"ok", "empty"} /\ ~commit /\ ~stopiter
           e == IF stopiter THEN "stopiter" ELSE o
       IN /\ pobj' = IF commit THEN pobj ELSE [pobj EXCEPT ![a][req[r].px] = Leave(Px(r))]
          /\ health' = IF success THEN [health EXCEPT ![a] = RecordSuccess(@)] ELSE health
          /\ hasState' = IF success THEN hasState \cup {a} ELSE hasState
          /\ gh' = [gh EXCEPT ![r].log = Append(@, <<a, o, req[r].i>>),
                              ![r].recs = IF success THEN Append(@, <<a, "success">>) ELSE @,
                              ![r].first = IF commit THEN Len(gh[r].log) + 1 ELSE @]
          /\ req' = [req EXCEPT ![r] =
                        IF commit THEN [@ EXCEPT !.pc = "streaming"]
                        ELSE IF success THEN DoneReq("ok")
                        ELSE [@ EXCEPT !.exc = e,
                                       !.pc = IF IsUpstreamTokenExpired(e) /\ ~req[r].retried
                                              THEN "rlock" ELSE "fail"]]
          /\ cur' = IF o \in FirstErrors \/ stopiter THEN r ELSE 0
    /\ UNCHANGED <<probe, fileDoc, fileMtime, routing, routingMtime, epoch,
                   proxies, rrIndex, rrKeys, rlock>>

\* A variant of StreamNext that treats a mid-stream failure like a failure
\* of the first pull: it enters the failover handler instead of raising.
StreamNextRetry(r, o) ==
    /\ cur = 0
    /\ req[r].pc = "streaming"
    /\ o \in {"end"} \cup Errors
    /\ LET a == req[r].acct
       IN /\ pobj' = [pobj EXCEPT ![a][req[r].px] = Leave(Px(r))]
          /\ health' = IF o = "end" THEN [health EXCEPT ![a] = RecordSuccess(@)] ELSE health
          /\ hasState' = IF o = "end" THEN hasState \cup {a} ELSE hasState
          /\ gh' = [gh EXCEPT ![r].mid = o]
          /\ req' = [req EXCEPT ![r] = IF o = "end" THEN DoneReq("ok")
                                       ELSE [@ EXCEPT !.pc = "fail", !.exc = o]]
          /\ cur' = IF o = "end" THEN 0 ELSE r
    /\ UNCHANGED <<probe, fileDoc, fileMtime, routing, routingMtime, epoch,
                   proxies, rrIndex, rrKeys, rlock>>

\* gen(), lines 695-703: the caller drains the committed stream; it ends
\* (o = "end") or the upstream fails mid-stream.  The failure is recorded
\* and raised to the caller.
StreamNext(r, o) ==
    /\ cur = 0
    /\ req[r].pc = "streaming"
    /\ o \in {"end"} \cup Errors
    /\ LET a == req[r].acct
       IN /\ pobj' = [pobj EXCEPT ![a][req[r].px] = Leave(Px(r))]
          /\ health' = [health EXCEPT ![a] =
                           IF o = "end" THEN RecordSuccess(@)
                           ELSE RecordFailure(@, Cfg.resilience, o)]
          /\ hasState' = hasState \cup {a}
          /\ gh' = [gh EXCEPT ![r].mid = o,
                              ![r].vers = IF o = "end" THEN @ ELSE @ \cup {routingMtime},
                              ![r].recs = Append(@, <<a, IF o = "end" THEN "success" ELSE "failure">>)]
          /\ req' = [req EXCEPT ![r] = DoneReq(IF o = "end" THEN "ok" ELSE "err_mid")]
    /\ UNCHANGED <<cur, probe, fileDoc, fileMtime, routing, routingMtime, epoch,
                   proxies, rrIndex, rrKeys, rlock>>

\* _refresh_account_oauth, lines 494-499: the account's lock is taken, or
\* the coroutine waits for it.
RLock(r) ==
    /\ cur = r
    /\ req[r].pc = "rlock"
    /\ IF rlock[req[r].acct] = 0
       THEN /\ rlock' = [rlock EXCEPT ![req[r].acct] = r]
            /\ req' = [req EXCEPT ![r].pc = "reload", ![r].ret = "racct"]
            /\ cur' = r
            /\ gh' = [gh EXCEPT ![r].rf = Append(@, req[r].i)]
       ELSE /\ req' = [req EXCEPT ![r].pc = "rwait"]
            /\ cur' = 0
            /\ gh' = [gh EXCEPT ![r].rf = Append(@, req[r].i), ![r].waited = TRUE]
            /\ UNCHANGED rlock
    /\ UNCHANGED <<probe, fileDoc, fileMtime, routing, routingMtime, epoch,
                   proxies, pobj, rrIndex, rrKeys, health, hasState>>

\* The lock's holder released it: the waiter takes it and goes on.
RWake(r) ==
    /\ cur = 0
    /\ req[r].pc = "rwait"
    /\ rlock[req[r].acct] = 0
    /\ rlock' = [rlock EXCEPT ![req[r].acct] = r]
    /\ req' = [req EXCEPT ![r].pc = "reload", ![r].ret = "racct"]
    /\ cur' = r
    /\ UNCHANGED <<probe, fileDoc, fileMtime, routing, routingMtime, epoch,
                   proxies, pobj, rrIndex, rrKeys, health, hasState, gh>>

\* _refresh_account_oauth, lines 501-511: without an account record or a
\* refresh token it returns False (and the expiry error is re-raised, line
\* 657); else the exchange with the OAuth collaborator starts.
RAcct(r) ==
    /\ cur = r
    /\ req[r].pc = "racct"
    /\ gh' = [gh EXCEPT ![r].vers = @ \cup {routingMtime}]
    /\ LET a == req[r].acct
           can == a \in DOMAIN Cfg.accounts /\ Cfg.accounts[a].oauth_refresh_token
       IN IF can
          THEN /\ req' = [req EXCEPT ![r].pc = "rexch"]
               /\ cur' = 0
               /\ UNCHANGED rlock
          ELSE /\ req' = [req EXCEPT ![r].pc = "fail"]
               /\ cur' = r
               /\ rlock' = [rlock EXCEPT ![a] = 0]
    /\ UNCHANGED <<probe, fileDoc, fileMtime, routing, routingMtime, epoch,
                   proxies, pobj, rrIndex, rrKeys, health, hasState>>

\* _refresh_account_oauth, lines 511-539: the exchange is over, with
\* outcome x; the bookkeeping on the account record runs and the finally
\* block awaits oauth.close().
RExchange(r, x) ==
    /\ cur = 0
    /\ req[r].pc = "rexch"
    /\ x \in Exchanges
    /\ req' = [req EXCEPT ![r].pc = "rclose", ![r].refreshed = RefreshResult(x)]
    /\ gh' = [gh EXCEPT ![r].exchanged = TRUE]
    /\ UNCHANGED <<cur, shared>>

\* A variant of RClose in which the call is issued again on the same account
\* after every refresh, whatever the refresh gave.
RCloseRetry(r) ==
    /\ cur = 0
    /\ req[r].pc = "rclose"
    /\ rlock' = [rlock EXCEPT ![req[r].acct] = 0]
    /\ req' = [req EXCEPT ![r].pc = "acquire"]
    /\ cur' = r
    /\ UNCHANGED <<probe, fileDoc, fileMtime, routing, routingMtime, epoch,
                   proxies, pobj, rrIndex, rrKeys, health, hasState, gh>>

\* oauth.close() returns.  A ValueError leaves _refresh_account_oauth and
\* reaches the handler at line 707.  Else lines 541-557 run: the config is
\* saved over the routing file (and its mtime taken as _routing_mtime), the
\* lock is released, and with refreshed = False the expiry error is
\* re-raised (lines 657, 684); with True the same call is issued once more
\* on the account's proxy (lines 654-655, 680-682).
RClose(r) ==
    /\ cur = 0
    /\ req[r].pc = "rclose"
    /\ LET a == req[r].acct
           res == req[r].refreshed
           known == a \in DOMAIN Cfg.accounts
           create == known /\ a \notin Range(proxies)
           p0 == IF create THEN NewProxy(Cfg.accounts[a].max_concurrency)
                 ELSE pobj[a][epoch]
       IN /\ rlock' = [rlock EXCEPT ![a] = 0]
          /\ IF res = "raise"
             THEN /\ req' = [req EXCEPT ![r].pc = "fail", ![r].exc = "valueerror"]
                  /\ UNCHANGED <<fileDoc, fileMtime, routingMtime, proxies, pobj>>
             ELSE /\ fileDoc' = routing
                  /\ fileMtime' = fileMtime + 1
                  /\ routingMtime' = fileMtime + 1
                  /\ IF res = "false"
                     THEN /\ req' = [req EXCEPT ![r].pc = "fail"]
                          /\ UNCHANGED <<proxies, pobj>>
                     ELSE IF ~known
                     THEN /\ req' = [req EXCEPT ![r].pc = "fail", ![r].exc = "keyerror"]
                          /\ UNCHANGED <<proxies, pobj>>
                     ELSE /\ proxies' = IF create THEN Append(proxies, a) ELSE proxies
                          /\ pobj' = [pobj EXCEPT ![a][epoch] = [p0 EXCEPT !.client = "open"]]
                          /\ req' = [req EXCEPT ![r].pc = "acquire", ![r].px = epoch,
                                                ![r].retried = TRUE]
    /\ cur' = r
    /\ UNCHANGED <<probe, routing, epoch, rrIndex, rrKeys, health, hasState, gh>>

\* chat_completions, lines 707-729: does the loop stop after error e?
StopsAfter(e, res, ntried, ncands) ==
    LET mns == IsModelNotSupported(e)
        retryable == mns \/ is_retryable_exception(e, res.retry_status_codes)
    IN \/ ~res.enabled /\ ~mns
       \/ ~retryable
       \/ ntried >= ncands

\* chat_completions, lines 707-733: the failure is recorded; the loop stops
\* and raises the error, or sleeps the backoff, or goes on at once.
Fail(r) ==
    /\ cur = r
    /\ req[r].pc = "fail"
    /\ LET a == req[r].acct
           e == req[r].exc
           stop == StopsAfter(e, Cfg.resilience, Cardinality(req[r].tried), Len(req[r].cands))
           sleep == req[r].backoff_ms > 0 /\ req[r].i < req[r].attempts - 1
       IN /\ health' = [health EXCEPT ![a] = RecordFailure(@, Cfg.resilience, e)]
          /\ hasState' = hasState \cup {a}
          /\ gh' = [gh EXCEPT ![r].vers = @ \cup {routingMtime},
                              ![r].recs = Append(@, <<a, "failure">>)]
          /\ req' = [req EXCEPT ![r] =
                        IF stop THEN DoneReq("err")
                        ELSE IF sleep THEN [@ EXCEPT !.pc = "backoff", !.last_exc = e]
                        ELSE [@ EXCEPT !.pc = "pick", !.last_exc = e, !.i = @ + 1]]
          /\ cur' = IF stop \/ sleep THEN 0 ELSE r
    /\ UNCHANGED <<probe, fileDoc, fileMtime, routing, routingMtime, epoch,
                   proxies, pobj, rrIndex, rrKeys, rlock>>

\* asyncio.sleep(backoff) returns: the next iteration of the loop.
BackoffWake(r) ==
    /\ cur = 0
    /\ req[r].pc = "backoff"
    /\ req' = [req EXCEPT ![r].pc = "pick", ![r].i = @ + 1]
    /\ cur' = r
    /\ UNCHANGED <<shared, gh>>

\* GET /v1/metrics: ProxyManager.get_account_metrics, lines 740-747, reloads
\* the routing file itself when it is newer.
Metrics ==
    /\ cur = 0
    /\ fileMtime > routingMtime
    /\ routing' = fileDoc
    /\ routingMtime' = fileMtime
    /\ gh' = MarkReloaded
    /\ UNCHANGED <<cur, probe, fileDoc, fileMtime, epoch, proxies, pobj, rrIndex,
                   rrKeys, health, hasState, rlock, req>>

Next ==
    \/ Tick
    \/ Metrics
    \/ \E d \in DocIds : FileWrite(d)
    \/ \E r \in Reqs : \E s \in BOOLEAN : \E t \in Presented(fileDoc) : Start(r, s, t)
    \/ \E r \in Reqs : Reload(r)
    \/ \E r \in Reqs : CloseOld(r)
    \/ \E r \in Reqs : CloseResume(r)
    \/ \E r \in Reqs : Route(r)
    \/ \E r \in Reqs : Fallback(r)
    \/ \E r \in Reqs : Pick(r)
    \/ \E r \in Reqs : Acquire(r)
    \/ \E r \in Reqs : WaitAcquire(r)
    \/ \E r \in Reqs : \E o \in Outcomes(TRUE) : Respond(r, o)
    \/ \E r \in Reqs : \E o \in {"end"} \cup Errors : StreamNext(r, o)
    \/ \E r \in Reqs : RLock(r)
    \/ \E r \in Reqs : RWake(r)
    \/ \E r \in Reqs : RAcct(r)
    \/ \E r \in Reqs : \E x \in Exchanges : RExchange(r, x)
    \/ \E r \in Reqs : RClose(r)
    \/ \E r \in Reqs : Fail(r)
    \/ \E r \in Reqs : BackoffWake(r)

Spec == Init /\ [][Next]_vars

\* The same gateway in a deployment whose routing file maps client keys.
InitKeys ==
    /\ cur = 0
    /\ fileDoc \in KeyedDocs
    /\ fileMtime = 0
    /\ routing = fileDoc
    /\ routingMtime = 0
    /\ epoch = 0
    /\ proxies = <<>>
    /\ pobj = [a \in ProxyKeys |-> [e \in Epochs |-> NoProxy]]
    /\ rrIndex = [k \in AllKeys |-> 0]
    /\ rrKeys = {}
    /\ health = [a \in Accounts |-> ZeroState]
    /\ hasState = {}
    /\ rlock = [a \in Accounts |-> 0]
    /\ req = [r \in Reqs |-> IdleReq]
    /\ gh = [r \in Reqs |-> IdleGh]
    /\ probe = NoProbe

SpecKeys == InitKeys /\ [][Next]_vars

\* ------------------------------------------------ abandoned requests
\* What the handlers of chat_completions do with the exception of an
\* abandoned request.  asyncio.CancelledError and GeneratorExit derive from
\* BaseException, and every handler on their way (lines 652, 678, 701 and
\* 707) is an "except Exception": none of them runs, nothing is recorded.
AbandonRecorded(st, res, e) == RecordFailure(st, res, e)

Abandon(st, res, e) == st

\* The places where a request can be abandoned: waiting for a permit, with
\* its call (or first pull) in flight, draining a committed stream, asleep
\* between two attempts.
CancelPoints == {"wait", "call", "streaming", "backoff"}

\* The caller abandons request r: the task of a call is cancelled, or the
\* generator of a committed stream is closed.  The exception unwinds
\* IFlowProxy._limit where it was entered (the permit is returned) and
\* leaves chat_completions through no handler.
Cancel(r) ==
    /\ cur = 0
    /\ req[r].pc \in CancelPoints
    /\ LET a == req[r].acct
           entered == req[r].pc \in {"call", "streaming"}
       IN /\ pobj' = IF entered THEN [pobj EXCEPT ![a][req[r].px] = Leave(Px(r))] ELSE pobj
          /\ health' = IF entered
                       THEN [health EXCEPT ![a] = Abandon(@, Cfg.resilience, "cancelled")]
                       ELSE health
          /\ gh' = [gh EXCEPT ![r].mid = IF req[r].pc = "streaming" THEN "closed" ELSE @]
          /\ req' = [req EXCEPT ![r] = DoneReq("cancelled")]
    /\ UNCHANGED <<cur, probe, fileDoc, fileMtime, routing, routingMtime, epoch,
                   proxies, rrIndex, rrKeys, hasState, rlock>>

NextCancel ==
    \/ Next
    \/ \E r \in Reqs : Cancel(r)

SpecCancel == Init /\ [][NextCancel]_vars

\* ------------------------------------------- the balancer on its own
\* _pick_account called repeatedly on one candidate list, over every
\* combination of availability and in-flight counts of three accounts.
PickAccts == {"A", "B", "C"}

\* The candidate lists: the lists of distinct accounts.
PickLists ==
    {s \in UNION {[1..n -> PickAccts] : n \in 1..Cardinality(PickAccts)} :
        \A i, j \in DOMAIN s : i # j => s[i] # s[j]}

\* One document with resilience enabled, one with it disabled.
PickDocs == {CHOOSE d \in DocIds : Docs[d].resilience.enabled,
             CHOOSE d \in DocIds : ~Docs[d].resilience.enabled}

\* An account whose circuit is open.
OpenState == [consecutive_failures |-> 1, circuit_open_until |-> 1, last_error |-> "e503"]

\* The in-flight count of each account's proxy; -1: the map holds no proxy.
InFlights == [PickAccts -> {-1, 0, 1}]

InitPick ==
    /\ cur = 0
    /\ fileDoc \in PickDocs
    /\ fileMtime = 0
    /\ routing = fileDoc
    /\ routingMtime = 0
    /\ epoch = 0
    /\ \E fl \in InFlights :
          /\ proxies = SelectSeq(<<"A", "B", "C">>, LAMBDA a: fl[a] >= 0)
          /\ pobj = [a \in PickAccts |-> [e \in Epochs |->
                        IF e = 0 /\ fl[a] >= 0
                        THEN [NewProxy(0) EXCEPT !.in_flight = fl[a]]
                        ELSE NoProxy]]
    /\ rrIndex = [k \in PickLists |-> 0]
    /\ rrKeys = {}
    /\ health \in [PickAccts -> {ZeroState, OpenState}]
    /\ hasState = {a \in PickAccts : health[a] # ZeroState}
    /\ rlock = [a \in Accounts |-> 0]
    /\ req = [r \in Reqs |-> IdleReq]
    /\ gh = [r \in Reqs |-> IdleGh]
    /\ probe \in [cands : PickLists, strategy : {"round_robin", "least_busy"},
                  mode : {"fresh", "request"}, picks : {<<>>}]

\* What a call of _pick_account excludes: nothing ("fresh": independent
\* calls), or the accounts picked so far ("request": the tried set of one
\* request, lines 634-635).
PickExclude == IF probe.mode = "request" THEN Range(probe.picks) ELSE {}

\* One call of _pick_account (lines 460-485).
DoPick ==
    /\ probe.cands # <<>>
    /\ Len(probe.picks) < 2 * Len(probe.cands)
    /\ LET cands == probe.cands
           pool == PickPool(cands, PickExclude)
           a == PickAccount(cands, probe.strategy, PickExclude)
           rr == probe.strategy = "round_robin"
       IN /\ probe' = [probe EXCEPT !.picks = Append(@, a)]
          /\ rrIndex' = IF rr THEN [rrIndex EXCEPT ![cands] = Advance(@, Len(pool))]
                        ELSE rrIndex
          /\ rrKeys' = IF rr THEN rrKeys \cup {cands} ELSE rrKeys
          /\ hasState' = IF Cfg.resilience.enabled
                         THEN hasState \cup Range(cands) ELSE hasState
    /\ UNCHANGED <<cur, fileDoc, fileMtime, routing, routingMtime, epoch,
                   proxies, pobj, health, rlock, req, gh>>

NextPick == DoPick

SpecPick == InitPick /\ [][NextPick]_vars

\* ------------------------------------- the upstream client's decoding
\* IFlowProxy.chat_completions, non-streaming, on one upstream JSON payload,
\* and the orchestrator handing its result to the caller.
\* A payload: status (-1: no such key), usage ("absent": no such key,
\* "null", "object": the upstream's own figures), and the first choice's
\* message: reasoning_content and reasoning ("absent" or a text), content
\* ("none": absent or null, "empty", or a text).
Payloads ==
    [status : {-1, 0, 200, 500},
     usage : {"absent", "null", "object"},
     reasoning_content : {"absent", "rc"},
     reasoning : {"absent", "own"},
     content : {"none", "empty", "text"}]

\* proxy._raise_iflow_payload_error raises for this payload.
PayloadError(p) == p.status # -1 /\ p.status \notin {0, 200}

\* proxy._add_reasoning_aliases.
AddReasoningAliases(p) ==
    IF p.reasoning_content = "absent" THEN p
    ELSE [p EXCEPT !.reasoning = IF @ = "absent" THEN p.reasoning_content ELSE @,
                   !.content = IF @ \in {"none", "empty"} THEN p.reasoning_content ELSE @]

\* proxy.py lines 261-267: `if "usage" not in result` adds the zero figures.
EnsureUsage(p) == IF p.usage = "absent" THEN [p EXCEPT !.usage = "zeros"] ELSE p

\* Everything but probe.
gateway == <<cur, fileDoc, fileMtime, routing, routingMtime, epoch, proxies, pobj,
             rrIndex, rrKeys, health, hasState, rlock, req, gh>>

InitPayload ==
    /\ cur = 0
    /\ fileDoc = 1
    /\ fileMtime = 0
    /\ routing = fileDoc
    /\ routingMtime = 0
    /\ epoch = 0
    /\ proxies = <<>>
    /\ pobj = [a \in ProxyKeys |-> [e \in Epochs |-> NoProxy]]
    /\ rrIndex = [k \in AllKeys |-> 0]
    /\ rrKeys = {}
    /\ health = [a \in Accounts |-> ZeroState]
    /\ hasState = {}
    /\ rlock = [a \in Accounts |-> 0]
    /\ req = [r \in Reqs |-> IdleReq]
    /\ gh = [r \in Reqs |-> IdleGh]
    /\ probe \in [payload : Payloads, stage : {"upstream"}, result : {<<>>}]

\* IFlowProxy.chat_completions, lines 255-269: the payload error is raised,
\* or the aliases and the usage figures are added.
Decode ==
    /\ probe.stage = "upstream"
    /\ probe' = IF PayloadError(probe.payload)
                THEN [probe EXCEPT !.stage = "raised"]
                ELSE [probe EXCEPT !.stage = "decoded",
                                   !.result = EnsureUsage(AddReasoningAliases(probe.payload))]
    /\ UNCHANGED gateway

\* ProxyManager.chat_completions, lines 649-666: the result of the client is
\* returned as it is.
Return ==
    /\ probe.stage = "decoded"
    /\ probe' = [probe EXCEPT !.stage = "returned"]
    /\ UNCHANGED gateway

NextPayload == Decode \/ Return

SpecPayload == InitPayload /\ [][NextPayload]_vars

\* ------------------------------------------- the classifier on its own
\* is_retryable_exception applied to every exception of ExcNames under every
\* configured set of status codes drawn from CodePool.
CodePool == {400, 429, 439, 503}

InitClassify ==
    /\ cur = 0
    /\ fileDoc = 1
    /\ fileMtime = 0
    /\ routing = fileDoc
    /\ routingMtime = 0
    /\ epoch = 0
    /\ proxies = <<>>
    /\ pobj = [a \in ProxyKeys |-> [e \in Epochs |-> NoProxy]]
    /\ rrIndex = [k \in AllKeys |-> 0]
    /\ rrKeys = {}
    /\ health = [a \in Accounts |-> ZeroState]
    /\ hasState = {}
    /\ rlock = [a \in Accounts |-> 0]
    /\ req = [r \in Reqs |-> IdleReq]
    /\ gh = [r \in Reqs |-> IdleGh]
    /\ probe \in [exc : ExcNames, codes : SUBSET CodePool,
                  classified : {FALSE}, retryable : {FALSE}]

\* One call of is_retryable_exception (resilience.py 26-32).
Classify ==
    /\ ~probe.classified
    /\ probe' = [probe EXCEPT !.classified = TRUE,
                              !.retryable = is_retryable_exception(probe.exc, probe.codes)]
    /\ UNCHANGED gateway

NextClassify == Classify

SpecClassify == InitClassify /\ [][NextClassify]_vars

\* --------------------------------------- loading the routing document
\* load_routing_config on a document as written to the file, and
\* _maybe_reload_routing taking its result.  A raw route: account (NoAcct:
\* null or absent, "": the empty string, or an id) and accounts (<<>>: null,
\* absent or empty).  "A" is an account of the document, "X" is not.
RawRoutes ==
    [account : {NoAcct, "", "A", "X"},
     accounts : {<<>>, <<"A">>, <<"A", "X">>, <<"">>, <<"", "A">>},
     strategy : {"least_busy"}]

\* A raw document: the ids of its accounts, the route of its one client key
\* and its default route (NoRoute: none).
RawDocs ==
    [accounts : {{"A"}, {}},
     key : RawRoutes \cup {NoRoute},
     default : RawRoutes \cup {NoRoute}]

\* Python's truth value of an optional string.
Truthy(x) == x \notin {NoAcct, ""}

\* ApiKeyRoute.normalize raises ValueError (routing.py 49-54).
NormalizeRaises(route) ==
    \/ Truthy(route.account) /\ route.accounts # <<>>
    \/ ~Truthy(route.account) /\ route.accounts = <<>>

\* The routes of a raw document.
RawRoutesOf(doc) == {doc.key, doc.default} \ {NoRoute}

\* validate_routes, lines 97-104: the set `missing`.
MissingAccounts(doc) ==
    UNION {{id \in (IF Truthy(route.account) THEN {route.account} ELSE Range(route.accounts)) :
                id # "" /\ id \notin doc.accounts} : route \in RawRoutesOf(doc)}

\* load_routing_config raises (lines 162-168, validate_routes 91-106).
LoadRaises(doc) ==
    \/ \E route \in RawRoutesOf(doc) : NormalizeRaises(route)
    \/ MissingAccounts(doc) # {}

InitLoad ==
    /\ cur = 0
    /\ fileDoc = 1
    /\ fileMtime = 1
    /\ routing = fileDoc
    /\ routingMtime = 0
    /\ epoch = 0
    /\ proxies = <<>>
    /\ pobj = [a \in ProxyKeys |-> [e \in Epochs |-> NoProxy]]
    /\ rrIndex = [k \in AllKeys |-> 0]
    /\ rrKeys = {}
    /\ health = [a \in Accounts |-> ZeroState]
    /\ hasState = {}
    /\ rlock = [a \in Accounts |-> 0]
    /\ req = [r \in Reqs |-> IdleReq]
    /\ gh = [r \in Reqs |-> IdleGh]
    /\ probe \in [doc : RawDocs, stage : {"file"}, memory : {"old"},
                  when : {"startup", "reload"}, surfaced : {FALSE}]

\* load_routing_config (routing.py 130-168) on the document of the file.
Load ==
    /\ probe.stage = "file"
    /\ probe' = [probe EXCEPT !.stage = IF LoadRaises(probe.doc) THEN "rejected" ELSE "accepted"]
    /\ UNCHANGED gateway

\* _maybe_reload_routing, lines 272-281: the new configuration is swapped in.
Swap ==
    /\ probe.stage = "accepted"
    /\ probe' = [probe EXCEPT !.stage = "swapped", !.memory = "new"]
    /\ routingMtime' = fileMtime
    /\ UNCHANGED <<cur, fileDoc, fileMtime, routing, epoch, proxies, pobj,
                   rrIndex, rrKeys, health, hasState, rlock, req, gh>>

\* app.lifespan, lines 57-59: the ValueError of the load at startup is
\* printed to stderr and the process exits.
Exit ==
    /\ probe.stage = "rejected"
    /\ probe.when = "startup"
    /\ probe' = [probe EXCEPT !.stage = "exit", !.surfaced = TRUE]
    /\ UNCHANGED gateway

\* _maybe_reload_routing, lines 266-270: the load raised; the old
\* configuration is kept and the mtime advanced.  Nothing is logged or
\* raised.
Keep ==
    /\ probe.stage = "rejected"
    /\ probe.when = "reload"
    /\ probe' = [probe EXCEPT !.stage = "kept"]
    /\ routingMtime' = fileMtime
    /\ UNCHANGED <<cur, fileDoc, fileMtime, routing, epoch, proxies, pobj,
                   rrIndex, rrKeys, health, hasState, rlock, req, gh>>

NextLoad == Load \/ Swap \/ Exit \/ Keep

SpecLoad == InitLoad /\ [][NextLoad]_vars

\* ------------------------------------------------- the routing store
\* The routing file as the gateway, the background refresher and the admin
\* surface use it: where the configuration comes from, who saves it and
\* where, and what a reader finds.
\* The source: "inline" (IFLOW2API_KEYS_JSON is set), "path"
\* (IFLOW2API_KEYS_PATH is set), "default" (neither).
Sources == {"inline", "path", "default"}

\* The files: the one IFLOW2API_KEYS_PATH names, and ~/.iflow2api/keys.json.
Paths == {"custom", "home"}

NoPath == "-"

Savers == {1, 2}

\* The callers of save_keys_config: ProxyManager._refresh_account_oauth
\* (line 543, reached only when the bookkeeping before it does not raise),
\* RoutingOAuthRefresher.refresh_once (line 132), and the admin surface,
\* which passes no path.
SaverKinds == {"orchestrator", "refresher", "admin"}

\* routing.get_routing_file_path_in_use (routing.py 113-120).
PathInUse(src) ==
    IF src = "inline" THEN NoPath ELSE IF src = "path" THEN "custom" ELSE "home"

\* The path a save of this kind writes to (NoPath: the save is skipped):
\* proxy_manager.py 541, routing_refresher.py 69-72, keys_store.py 33-37.
SaveTarget(kind, src) ==
    IF kind = "admin"
    THEN (IF PathInUse(src) # NoPath THEN PathInUse(src) ELSE "home")
    ELSE PathInUse(src)

\* The document saver s writes.
DocOf(sv) == IF sv = 1 THEN "d1" ELSE "d2"

IdleSaver == [pc |-> "idle", kind |-> "-", target |-> NoPath, tmp |-> "none"]

InitStore ==
    /\ cur = 0
    /\ fileDoc = 1
    /\ fileMtime = 0
    /\ routing = fileDoc
    /\ routingMtime = 0
    /\ epoch = 0
    /\ proxies = <<>>
    /\ pobj = [a \in ProxyKeys |-> [e \in Epochs |-> NoProxy]]
    /\ rrIndex = [k \in AllKeys |-> 0]
    /\ rrKeys = {}
    /\ health = [a \in Accounts |-> ZeroState]
    /\ hasState = {}
    /\ rlock = [a \in Accounts |-> 0]
    /\ req = [r \in Reqs |-> IdleReq]
    /\ gh = [r \in Reqs |-> IdleGh]
    /\ probe \in [source : Sources,
                  file : [Paths -> {"none", "d0"}],
                  sv : {[x \in Savers |-> IdleSaver]},
                  seen : {{}}]

\* save_keys_config is called (keys_store.py 32-52): the path is resolved
\* and the temporary file created next to it; or the caller skips the save.
SaveBegin(x, kind) ==
    /\ probe.sv[x].pc = "idle"
    /\ LET target == SaveTarget(kind, probe.source)
       IN probe' = [probe EXCEPT !.sv[x] =
                       IF target = NoPath
                       THEN [pc |-> "skipped", kind |-> kind, target |-> NoPath, tmp |-> "none"]
                       ELSE [pc |-> "write", kind |-> kind, target |-> target, tmp |-> "empty"]]
    /\ UNCHANGED gateway

\* A variant of SaveWrite that writes the payload into the routing file
\* itself.
SaveWriteInPlace(x) ==
    /\ probe.sv[x].pc = "write"
    /\ LET t == probe.sv[x].target
           done == probe.file[t] = "part"
       IN probe' = [probe EXCEPT !.file[t] = IF done THEN DocOf(x) ELSE "part",
                                 !.sv[x].tmp = IF done THEN "none" ELSE "empty",
                                 !.sv[x].pc = IF done THEN "done" ELSE "write"]
    /\ UNCHANGED gateway

\* f.write(payload) and the close of the temporary file (lines 46-54): the
\* payload reaches the temporary file in pieces.
SaveWrite(x) ==
    /\ probe.sv[x].pc = "write"
    /\ probe' = [probe EXCEPT !.sv[x].tmp = IF @ = "empty" THEN "part" ELSE "full",
                              !.sv[x].pc = IF probe.sv[x].tmp = "part" THEN "rename" ELSE "write"]
    /\ UNCHANGED gateway

\* tmp_path.replace(path) (line 55): the rename.
SaveRename(x) ==
    /\ probe.sv[x].pc = "rename"
    /\ probe' = [probe EXCEPT !.file[probe.sv[x].target] = DocOf(x),
                              !.sv[x].tmp = "none",
                              !.sv[x].pc = "done"]
    /\ UNCHANGED gateway

\* A reader loads the store (load_routing_config, routing.py 139-160): the
\* inline document, or the content of the file in use.
ReadStore ==
    /\ LET got == IF probe.source = "inline" THEN "env"
                  ELSE probe.file[PathInUse(probe.source)]
       IN /\ got \notin probe.seen
          /\ probe' = [probe EXCEPT !.seen = @ \cup {got}]
    /\ UNCHANGED gateway

NextStore ==
    \/ \E x \in Savers : \E kind \in SaverKinds : SaveBegin(x, kind)
    \/ \E x \in Savers : SaveWrite(x)
    \/ \E x \in Savers : SaveRename(x)
    \/ ReadStore

SpecStore == InitStore /\ [][NextStore]_vars

\* ------------------------------------------- the diagnostics summary
\* get_account_metrics on one account: what it shows of the credential.
\* A credential is a string over two characters, of length 0..MaxKeyLen.
Credentials == UNION {[1..n -> {"a", "b"}] : n \in 0..MaxKeyLen}

\* s[-4:].
Last4(str) == SubSeq(str, Max(1, Len(str) - 3), Len(str))

\* proxy_manager.py 754-758: f"...{acc.api_key[-4:]}" if acc.api_key else "".
KeyMask(key) == IF key = <<>> THEN <<>> ELSE <<".", ".", ".">> \o Last4(key)

InitSummary ==
    /\ cur = 0
    /\ fileDoc = 1
    /\ fileMtime = 0
    /\ routing = fileDoc
    /\ routingMtime = 0
    /\ epoch = 0
    /\ proxies = <<>>
    /\ pobj = [a \in ProxyKeys |-> [e \in Epochs |-> NoProxy]]
    /\ rrIndex = [k \in AllKeys |-> 0]
    /\ rrKeys = {}
    /\ health = [a \in Accounts |-> ZeroState]
    /\ hasState = {}
    /\ rlock = [a \in Accounts |-> 0]
    /\ req = [r \in Reqs |-> IdleReq]
    /\ gh = [r \in Reqs |-> IdleGh]
    /\ probe \in [api_key : Credentials, summarized : {FALSE}, api_key_mask : {<<>>}]

\* get_account_metrics, lines 750-769: the entry of the account.
Summarize ==
    /\ ~probe.summarized
    /\ probe' = [probe EXCEPT !.summarized = TRUE, !.api_key_mask = KeyMask(probe.api_key)]
    /\ UNCHANGED gateway

NextSummary == Summarize

SpecSummary == InitSummary /\ [][NextSummary]_vars

\* ------------------------------------------------------ one Upstream Client
\* The gate of one IFlowProxy (proxy.py, _limit) under every way a call can
\* leave it.  probe.p is the client; probe.calls[k] is one call of
\* chat_completions: pc is where it stands, stream its kind, how the way it
\* ended.
MaxCalls == 3

GateCalls == 1..MaxCalls

\* max_concurrency of the account: no gate, or a semaphore of 1 or 2.
GateCaps == {0, 1, 2}

IdleCall == [pc |-> "idle", stream |-> FALSE, how |-> "-"]

InitGate ==
    /\ cur = 0
    /\ fileDoc = 1
    /\ fileMtime = 0
    /\ routing = fileDoc
    /\ routingMtime = 0
    /\ epoch = 0
    /\ proxies = <<>>
    /\ pobj = [a \in ProxyKeys |-> [e \in Epochs |-> NoProxy]]
    /\ rrIndex = [k \in AllKeys |-> 0]
    /\ rrKeys = {}
    /\ health = [a \in Accounts |-> ZeroState]
    /\ hasState = {}
    /\ rlock = [a \in Accounts |-> 0]
    /\ req = [r \in Reqs |-> IdleReq]
    /\ gh = [r \in Reqs |-> IdleGh]
    /\ probe \in [p : {NewProxy(c) : c \in GateCaps},
                  calls : {[k \in GateCalls |-> IdleCall]}]

\* `async with self._limit()` is reached by call k: with a free permit (or no
\* semaphore) the counter is raised and the body runs, else the coroutine
\* waits in self._semaphore.acquire().
GateLimit(k) ==
    IF CanEnter(probe.p)
    THEN [probe EXCEPT !.p = Enter(@), !.calls[k].pc = "in"]
    ELSE [probe EXCEPT !.calls[k].pc = "wait"]

\* IFlowProxy.chat_completions is called (lines 229-269).  A non-streaming
\* call reaches _limit at once (line 250); a streaming call only returns the
\* generator of _stream_chat_completions, whose body has not started.
GateCall(k, s) ==
    /\ probe.calls[k].pc = "idle"
    /\ probe' = IF s THEN [probe EXCEPT !.calls[k].pc = "created", !.calls[k].stream = TRUE]
                 ELSE GateLimit(k)
    /\ UNCHANGED gateway

\* The first pull of a stream: the generator body starts and reaches _limit
\* (line 277).
GatePull(k) ==
    /\ probe.calls[k].pc = "created"
    /\ probe' = GateLimit(k)
    /\ UNCHANGED gateway

\* A generator that is never pulled is dropped: its body never ran.
GateDrop(k) ==
    /\ probe.calls[k].pc = "created"
    /\ probe' = [probe EXCEPT !.calls[k].pc = "done", !.calls[k].how = "dropped"]
    /\ UNCHANGED gateway

\* self._semaphore.acquire() returns for a waiter (lines 120-121).
GateWake(k) ==
    /\ probe.calls[k].pc = "wait"
    /\ CanEnter(probe.p)
    /\ probe' = [probe EXCEPT !.p = Enter(@), !.calls[k].pc = "in"]
    /\ UNCHANGED gateway

\* The waiter is cancelled inside acquire(): line 121 and the try block
\* are not reached.
GateCancelWait(k) ==
    /\ probe.calls[k].pc = "wait"
    /\ probe' = [probe EXCEPT !.calls[k].pc = "done", !.calls[k].how = "cancel"]
    /\ UNCHANGED gateway

\* A streaming call hands a chunk to its consumer (line 318): the generator
\* is suspended inside _limit.
GateYield(k) ==
    /\ probe.calls[k].pc = "in"
    /\ probe.calls[k].stream
    /\ probe' = [probe EXCEPT !.calls[k].pc = "yielded"]
    /\ UNCHANGED gateway

\* The consumer pulls the next chunk.
GateResume(k) ==
    /\ probe.calls[k].pc = "yielded"
    /\ probe' = [probe EXCEPT !.calls[k].pc = "in"]
    /\ UNCHANGED gateway

\* The suspended generator is closed by its consumer or finalised by the
\* event loop: GeneratorExit is raised at the yield and the finally block of
\* _limit runs.
GateClose(k) ==
    /\ probe.calls[k].pc = "yielded"
    /\ probe' = [probe EXCEPT !.p = Leave(@), !.calls[k].pc = "done",
                               !.calls[k].how = "closed"]
    /\ UNCHANGED gateway

\* A variant of GateFinish whose body is left on a cancellation without the
\* finally block.
GateFinishLeak(k, o) ==
    /\ probe.calls[k].pc = "in"
    /\ o \in {"ok", "error", "cancel"}
    /\ probe' = [probe EXCEPT !.p = IF o = "cancel" THEN @ ELSE Leave(@),
                               !.calls[k].pc = "done", !.calls[k].how = o]
    /\ UNCHANGED gateway

\* The body inside _limit ends: the response (or the whole stream body) is
\* complete, the upstream call raises, or the task is cancelled while it
\* awaits the upstream.  The finally block (lines 116-117, 124-126) runs.
GateFinish(k, o) ==
    /\ probe.calls[k].pc = "in"
    /\ o \in {"ok", "error", "cancel"}
    /\ probe' = [probe EXCEPT !.p = Leave(@), !.calls[k].pc = "done", !.calls[k].how = o]
    /\ UNCHANGED gateway

NextGate ==
    \E k \in GateCalls :
        \/ \E s \in BOOLEAN : GateCall(k, s)
        \/ GatePull(k)
        \/ GateDrop(k)
        \/ GateWake(k)
        \/ GateCancelWait(k)
        \/ GateYield(k)
        \/ GateResume(k)
        \/ GateClose(k)
        \/ \E o \in {"ok", "error", "cancel"} : GateFinish(k, o)

SpecGate == InitGate /\ [][NextGate]_vars

\* ------------------------------------------------- one credential refresh
\* _refresh_account_oauth on one account that holds a refresh token, and the
\* upstream calls made for the account afterwards.  probe holds: key, the
\* api_key of the account record in self._routing;  fkey, the api_key of the
\* account in the routing file;  pkey, the api_key of the account's client
\* (meaningful while hasProxy);  path, whether self._routing_path is set;
\* x, what the exchange gave;  rt, exp, whether the token response carried a
\* refresh token and an expiry;  ret, how the function ended;  used, the
\* credential of each upstream call issued after it ended.
MaxPostCalls == 3

OldKey == "old"

NewKey == "new"

InitRefresh ==
    /\ cur = 0
    /\ fileDoc = 1
    /\ fileMtime = 0
    /\ routing = fileDoc
    /\ routingMtime = 0
    /\ epoch = 0
    /\ proxies = <<>>
    /\ pobj = [a \in ProxyKeys |-> [e \in Epochs |-> NoProxy]]
    /\ rrIndex = [k \in AllKeys |-> 0]
    /\ rrKeys = {}
    /\ health = [a \in Accounts |-> ZeroState]
    /\ hasState = {}
    /\ rlock = [a \in Accounts |-> 0]
    /\ req = [r \in Reqs |-> IdleReq]
    /\ gh = [r \in Reqs |-> IdleGh]
    /\ probe \in [pc : {"start"}, key : {OldKey}, fkey : {OldKey}, pkey : {OldKey},
                  hasProxy : BOOLEAN, path : BOOLEAN, x : {"-"}, rt : {FALSE},
                  exp : {FALSE}, ret : {"-"}, used : {<<>>}]

\* Lines 511-518: the exchange with the OAuth collaborator is over.
RefExchange(x, rt, exp) ==
    /\ probe.pc = "start"
    /\ x \in Exchanges
    /\ x # "ok" => (~rt /\ ~exp)
    /\ probe' = [probe EXCEPT !.pc = "exchanged", !.x = x, !.rt = rt, !.exp = exp]
    /\ UNCHANGED gateway

\* The assignments of lines 520-527, in order, as far as they apply.
RefAssignments(rt, exp) ==
    <<"api_key", "auth_type", "oauth_access_token">>
        \o (IF rt THEN <<"oauth_refresh_token">> ELSE <<>>)
        \o (IF exp THEN <<"oauth_expires_at">> ELSE <<>>)
        \o <<"last_refresh_at", "refresh_failures", "last_refresh_error">>

\* The fields of a sequence that are assigned before the first one the
\* record refuses (all of them when none is refused).
RECURSIVE AssignedOf(_)
AssignedOf(fs) ==
    IF fs = <<>> \/ ~CanAssign(Head(fs)) THEN {}
    ELSE {Head(fs)} \cup AssignedOf(Tail(fs))

\* Lines 519-557 once the exchange is over: the bookkeeping on the account
\* record, the except block, oauth.close(), the save and the update of the
\* account's client.
RefFinish ==
    /\ probe.pc = "exchanged"
    /\ LET fs == RefAssignments(probe.rt, probe.exp)
           done == IF probe.x = "ok" THEN AssignedOf(fs) ELSE {}
           res == RefreshResult(probe.x)
           key1 == IF "api_key" \in done THEN NewKey ELSE probe.key
           changed == res \in {"true", "false"}
           refreshed == res = "true"
       IN probe' = [probe EXCEPT !.pc = "done",
                                 !.key = key1,
                                 !.fkey = IF changed /\ probe.path THEN key1 ELSE @,
                                 !.pkey = IF refreshed /\ probe.hasProxy THEN NewKey ELSE @,
                                 !.ret = res]
    /\ UNCHANGED gateway

\* An upstream call for the account after the refresh is over, on the
\* client _get_or_create_account_proxy returns (lines 412-416): the one in
\* the map, or a new one built from the account record.
RefCall ==
    /\ probe.pc = "done"
    /\ Len(probe.used) < MaxPostCalls
    /\ LET k == IF probe.hasProxy THEN probe.pkey ELSE probe.key
       IN probe' = [probe EXCEPT !.hasProxy = TRUE, !.pkey = k, !.used = Append(@, k)]
    /\ UNCHANGED gateway

NextRefresh ==
    \/ \E x \in Exchanges, rt, exp \in BOOLEAN : RefExchange(x, rt, exp)
    \/ RefFinish
    \/ RefCall

SpecRefresh == InitRefresh /\ [][NextRefresh]_vars

\* ------------------------------------------------ strict model verification
\* One attempt of chat_completions on an available account whose upstream
\* answers 200: the check of the model the response names against the model
\* requested (_ENFORCE_MODEL_STRICT_MATCH is True).  A response is the
\* sequence of the model ids its parts name: one part for a non-streaming
\* body, one per chunk of a stream; NoModel: the part names none.
MaxChunks == 2

NoModel == ""

\* The model ids a client asks for, and those an upstream names.
RequestedModels == {"glm-5", "iflow/glm-5"}

ReturnedModels == {NoModel, "glm-5", "GLM-5", "qwen3-max"}

\* _normalize_model_id (lines 146-166): the "iflow/" namespace is dropped.
NormalizeModelId(m) == IF m = "iflow/glm-5" THEN "glm-5" ELSE m

\* str.lower() on the ids of the model.
Lower(m) == IF m = "GLM-5" THEN "glm-5" ELSE m

\* _normalize_model_for_compare (lines 46-52).
NormalizeForCompare(m) == Lower(NormalizeModelId(m))

\* _model_strict_match (lines 55-60).
ModelStrictMatch(requested, returned) ==
    LET rq == NormalizeForCompare(requested)
        rt == NormalizeForCompare(returned)
    IN rq # NoModel /\ rt # NoModel /\ rq = rt

\* The responses: every sequence of 1..MaxChunks parts.
Responses == UNION {[1..n -> ReturnedModels] : n \in 1..MaxChunks}

InitStrict ==
    /\ cur = 0
    /\ fileDoc = 1
    /\ fileMtime = 0
    /\ routing = fileDoc
    /\ routingMtime = 0
    /\ epoch = 0
    /\ proxies = <<>>
    /\ pobj = [a \in ProxyKeys |-> [e \in Epochs |-> NoProxy]]
    /\ rrIndex = [k \in AllKeys |-> 0]
    /\ rrKeys = {}
    /\ health = [a \in Accounts |-> ZeroState]
    /\ hasState = {}
    /\ rlock = [a \in Accounts |-> 0]
    /\ req = [r \in Reqs |-> IdleReq]
    /\ gh = [r \in Reqs |-> IdleGh]
    /\ probe \in {q \in [pc : {"start"}, stream : BOOLEAN, requested : RequestedModels,
                          response : Responses, handed : {<<>>},
                          result : {"-"}, recorded : {"-"}] :
                     ~q.stream => Len(q.response) = 1}

\* Lines 647-666 (non-streaming) and 669-693 (first pull of a stream): the
\* upstream answered; the model of the body, or of the first chunk, is
\* checked against body["model"] as normalised at line 575.
StrictFirst ==
    /\ probe.pc = "start"
    /\ LET requested == NormalizeModelId(probe.requested)
           returned == probe.response[1]
           mismatch == IF probe.stream
                       THEN returned # NoModel /\ ~ModelStrictMatch(requested, returned)
                       ELSE ~ModelStrictMatch(requested, returned)
       IN probe' = IF mismatch
                   THEN [probe EXCEPT !.pc = "done", !.result = "502", !.recorded = "failure"]
                   ELSE IF probe.stream
                   THEN [probe EXCEPT !.pc = "streaming", !.handed = <<returned>>]
                   ELSE [probe EXCEPT !.pc = "done", !.handed = <<returned>>,
                                      !.result = "ok", !.recorded = "success"]
    /\ UNCHANGED gateway

\* gen(), lines 695-705: the next chunk is handed to the caller as it comes;
\* after the last one the success is recorded.
StrictNext ==
    /\ probe.pc = "streaming"
    /\ LET n == Len(probe.handed)
       IN probe' = IF n < Len(probe.response)
                   THEN [probe EXCEPT !.handed = Append(@, probe.response[n + 1])]
                   ELSE [probe EXCEPT !.pc = "done", !.result = "ok", !.recorded = "success"]
    /\ UNCHANGED gateway

NextStrict == StrictFirst \/ StrictNext

SpecStrict == InitStrict /\ [][NextStrict]_vars

\* ------------------------------------------------ the chat endpoint's errors
\* POST /v1/chat/completions (app.py 179-222): what the caller receives for
\* each way ProxyManager.chat_completions can end.  probe.kind is that way:
\* "ok", "badjson" (the body does not parse), "auth" (HTTPException 401 of
\* lines 588-595), "upstream" (an upstream HTTP error, its status in
\* probe.status) or "network" (an exception without a status);  msg: the
\* upstream payload carries a "msg";  sent: the status line already sent
\* (0: none);  out: the status the caller ends with;  detail: where the
\* message comes from;  aborted: the response was cut after its head.
UpstreamStatuses == {400, 401, 403, 404, 429, 435, 439, 500, 502, 503, 504}

EndKinds == {"ok", "badjson", "auth", "upstream", "network"}

InitEndpoint ==
    /\ cur = 0
    /\ fileDoc = 1
    /\ fileMtime = 0
    /\ routing = fileDoc
    /\ routingMtime = 0
    /\ epoch = 0
    /\ proxies = <<>>
    /\ pobj = [a \in ProxyKeys |-> [e \in Epochs |-> NoProxy]]
    /\ rrIndex = [k \in AllKeys |-> 0]
    /\ rrKeys = {}
    /\ health = [a \in Accounts |-> ZeroState]
    /\ hasState = {}
    /\ rlock = [a \in Accounts |-> 0]
    /\ req = [r \in Reqs |-> IdleReq]
    /\ gh = [r \in Reqs |-> IdleGh]
    /\ probe \in {q \in [pc : {"start"}, kind : EndKinds, status : UpstreamStatuses \cup {0},
                          stream : BOOLEAN, msg : BOOLEAN, sent : {0}, out : {0},
                          detail : {"-"}, aborted : {FALSE}] :
                     /\ (q.status # 0) = (q.kind = "upstream")
                     /\ q.msg => q.kind = "upstream"
                     /\ q.kind = "badjson" => ~q.stream}

\* Lines 182-209: the body is parsed; a streaming request is answered at
\* once with a StreamingResponse (the orchestrator runs later, inside
\* generate()); a non-streaming one awaits the orchestrator.
EndpointHandle ==
    /\ probe.pc = "start"
    /\ probe' =
          IF probe.kind = "badjson"
          THEN [probe EXCEPT !.pc = "done", !.out = 400, !.detail = "json"]
          ELSE IF probe.stream
          THEN [probe EXCEPT !.pc = "body", !.sent = 200]
          ELSE IF probe.kind = "ok"
          THEN [probe EXCEPT !.pc = "done", !.out = 200]
          ELSE \* lines 213-222: except Exception, HTTPException included
               [probe EXCEPT !.pc = "done", !.out = 500,
                             !.detail = IF probe.msg THEN "msg" ELSE "str"]
    /\ UNCHANGED gateway

\* Lines 194-196: generate() is iterated after the head of the response has
\* been sent; an exception of the orchestrator ends the body there.
EndpointBody ==
    /\ probe.pc = "body"
    /\ probe' = [probe EXCEPT !.pc = "done", !.out = probe.sent,
                               !.aborted = probe.kind # "ok"]
    /\ UNCHANGED gateway

NextEndpoint == EndpointHandle \/ EndpointBody

SpecEndpoint == InitEndpoint /\ [][NextEndpoint]_vars

\* ------------------------------------- deleting an account (admin surface)
\* DELETE /ui/api/accounts/{account_id} on a valid routing document, and
\* what the gateway makes of the document it leaves.
\* The token of the local client (settings.client_api_key) and its
\* strategy (settings.client_strategy, normalised).
ClientToken == "kc"

ClientStrategy == "least_busy"

\* The valid routes over the accounts S.
StoreRoutes(S) ==
    {SingleRoute(a) : a \in S} \cup {PoolRoute(<<a>>, "least_busy") : a \in S} \cup
    (IF S = {"A", "B"} THEN {PoolRoute(<<"A", "B">>, "round_robin")} ELSE {})

\* The documents the store can hold before the deletion: one or two
\* accounts, each enabled or not, the keys "k1" and ClientToken mapped or
\* not, a default route or none.  Each passes validate_routes.
StoreDocs ==
    UNION {[auth : {Auth(FALSE, FALSE), Auth(TRUE, TRUE)},
            keys : UNION {[K -> StoreRoutes(S)] : K \in SUBSET {"k1", ClientToken}},
            accounts : [S -> {Acc(TRUE, 0, FALSE), Acc(FALSE, 0, FALSE)}],
            default : StoreRoutes(S) \cup {NoRoute},
            resilience : {Res(FALSE, 1, 1, 0, 0, {503})}]
           : S \in {{"A"}, {"B"}, {"A", "B"}}}

\* validate_routes (routing.py 91-106) raises on a document: a route fails
\* ApiKeyRoute.normalize, or a route names an account that is not there.
validate_routes_raises(doc) ==
    LET routes == RoutesOf(doc) \ {NoRoute}
    IN \/ \E route \in routes : NormalizeRaises(route)
       \/ \E route \in routes :
             \E id \in (IF Truthy(route.account) THEN {route.account}
                        ELSE Range(route.accounts)) :
                 id # "" /\ id \notin DOMAIN doc.accounts

\* The ids of a dict of accounts, in its order.
IdsOf(accts) == SelectSeq(<<"A", "B">>, LAMBDA a : a \in DOMAIN accts)

\* ensure_opencode_route (keys_store.py 114-136), include_disabled = False.
ensure_opencode_route(cfg, token, strategy) ==
    IF DOMAIN cfg.accounts = {} THEN cfg
    ELSE LET enabled == SelectSeq(IdsOf(cfg.accounts), LAMBDA a : cfg.accounts[a].enabled)
             account_ids == IF enabled = <<>> THEN IdsOf(cfg.accounts) ELSE enabled
             route == PoolRoute(account_ids, strategy)
         IN [cfg EXCEPT !.auth = Auth(TRUE, TRUE),
                        !.keys = [t \in DOMAIN cfg.keys \cup {token} |->
                                     IF t = token THEN route ELSE cfg.keys[t]],
                        !.default = route]

\* ui_delete_account, lines 1563-1572: a pool route loses the account.
WithoutAccount(route, account_id) ==
    IF route.accounts # <<>> /\ account_id \in Range(route.accounts)
    THEN [route EXCEPT !.accounts = SelectSeq(@, LAMBDA c : c # account_id)]
    ELSE route

\* ui_delete_account (web_ui.py 1550-1577) on a document that holds the
\* account: the account is deleted, the keys routed to it alone are
\* deleted, the pools lose it, a default routed to it alone is unset; then
\* the route of the local client is synchronised.
ui_delete_account(routing0, account_id) ==
    LET kept == {t \in DOMAIN routing0.keys : routing0.keys[t].account # account_id}
        d == routing0.default
        cut == [routing0 EXCEPT
                   !.accounts = [a \in DOMAIN routing0.accounts \ {account_id} |->
                                    routing0.accounts[a]],
                   !.keys = [t \in kept |-> WithoutAccount(routing0.keys[t], account_id)],
                   !.default = IF d = NoRoute THEN NoRoute
                               ELSE IF d.account = account_id THEN NoRoute
                               ELSE WithoutAccount(d, account_id)]
    IN ensure_opencode_route(cut, ClientToken, ClientStrategy)

\* probe: file, the document of the routing file; memory, the one the
\* gateway holds; deleted, the account deleted; sent, the account a request
\* was dispatched to; stage, how far the scenario is.
InitDelete ==
    /\ cur = 0
    /\ fileDoc = 1
    /\ fileMtime = 0
    /\ routing = fileDoc
    /\ routingMtime = 0
    /\ epoch = 0
    /\ proxies = <<>>
    /\ pobj = [a \in ProxyKeys |-> [e \in Epochs |-> NoProxy]]
    /\ rrIndex = [k \in AllKeys |-> 0]
    /\ rrKeys = {}
    /\ health = [a \in Accounts |-> ZeroState]
    /\ hasState = {}
    /\ rlock = [a \in Accounts |-> 0]
    /\ req = [r \in Reqs |-> IdleReq]
    /\ gh = [r \in Reqs |-> IdleGh]
    /\ \E doc \in StoreDocs :
          probe = [file |-> doc, memory |-> doc, stage |-> "valid",
                   deleted |-> NoAcct, sent |-> NoAcct]

\* DELETE /ui/api/accounts/{account_id}: 404 for an account the document
\* does not hold, else the document is rewritten and saved.
DeleteAccount(account_id) ==
    /\ probe.stage = "valid"
    /\ probe' = IF account_id \notin DOMAIN probe.file.accounts
                THEN [probe EXCEPT !.stage = "notfound"]
                ELSE [probe EXCEPT !.stage = "deleted", !.deleted = account_id,
                                   !.file = ui_delete_account(probe.file, account_id)]
    /\ UNCHANGED gateway

\* The gateway's next _maybe_reload_routing (lines 266-281): the document
\* is loaded and swapped in, or the load raises and the old one is kept.
ReloadDeleted ==
    /\ probe.stage = "deleted"
    /\ probe' = IF validate_routes_raises(probe.file)
                THEN [probe EXCEPT !.stage = "kept"]
                ELSE [probe EXCEPT !.stage = "adopted", !.memory = probe.file]
    /\ UNCHANGED gateway

\* A request after that reload: its token is resolved on the document in
\* memory and it is dispatched to one of the route's candidates.
DispatchAfter(token, a) ==
    /\ probe.stage \in {"adopted", "kept"}
    /\ LET res == ResolveRoute(probe.memory, token)
       IN /\ res.kind = "route"
          /\ a \in Range(RouteCandidates(probe.memory, res.route))
    /\ probe' = [probe EXCEPT !.stage = "sent", !.sent = a]
    /\ UNCHANGED gateway

NextDelete ==
    \/ \E a \in Accounts : DeleteAccount(a)
    \/ ReloadDeleted
    \/ \E t \in {NoToken, "k1", ClientToken} : \E a \in Accounts : DispatchAfter(t, a)

SpecDelete == InitDelete /\ [][NextDelete]_vars

\* =============================================================== claims
\* The upstream calls in flight for account a: requests past the gate of a
\* proxy object of a (of any generation) whose client has not been closed.
InFlightCalls(a) ==
    Cardinality({r \in Reqs : /\ req[r].pc \in {"call", "streaming"}
                              /\ req[r].acct = a
                              /\ Px(r).client = "open"})

\* C1: for every account with maxConcurrency > 0, the number of upstream
\* calls simultaneously in flight never exceeds its maxConcurrency.
C1_InFlightWithinLimit ==
    \A a \in DOMAIN Cfg.accounts :
        Cfg.accounts[a].max_concurrency > 0 =>
            InFlightCalls(a) <= Cfg.accounts[a].max_concurrency

\* The request has handed its caller a result: a response, a stream, an error.
Returned(r) == req[r].pc \in {"done", "streaming"}

\* The request handed its caller a good response (or a stream that began).
Succeeded(r) == req[r].pc = "streaming" \/ (req[r].pc = "done" /\ req[r].result = "ok")

\* How many calls of the request went to account a.
Dispatches(r, a) == Cardinality({k \in 1..Len(gh[r].log) : gh[r].log[k][1] = a})

\* In everything the request saw, account h answered successfully and every
\* other account answered with an error the classifier holds retryable.
OnlyHealthy(r, h, codes) ==
    /\ \A k \in 1..Len(gh[r].log) :
          IF gh[r].log[k][1] = h
          THEN gh[r].log[k][2] \in {"ok", "empty"}
          ELSE is_retryable_exception(gh[r].log[k][2], codes)
    /\ gh[r].mid \in {NoExc, "end"}

\* C2: for a pool of N enabled candidates with resilience enabled and
\* retryAttempts >= N-1, if one account answers successfully and every other
\* account returns a retryable error, the request returns the successful
\* response, dispatches to the healthy account exactly once and makes at
\* most N attempts.  (Stated of a request during which the config was not
\* replaced.)
C2_FailoverReachesHealthy ==
    \A r \in Reqs :
        (Returned(r) /\ gh[r].doc # 0 /\ ~gh[r].reloaded) =>
            LET doc == Docs[gh[r].doc]
                cands == Candidates(doc)
            IN (doc.resilience.enabled /\ doc.resilience.retry_attempts >= Len(cands) - 1) =>
                  \A h \in Range(cands) :
                      OnlyHealthy(r, h, doc.resilience.retry_status_codes) =>
                          /\ Succeeded(r)
                          /\ Dispatches(r, h) = 1
                          /\ Len(gh[r].log) <= Len(cands)

\* C3: once the first chunk of a stream has been handed to the caller, no
\* other account is dispatched to for that request; a later failure of the
\* upstream is raised to the caller.
C3_NoFailoverAfterFirstChunk ==
    \A r \in Reqs :
        gh[r].first > 0 =>
            /\ Len(gh[r].log) = gh[r].first
            /\ req[r].pc \in {"streaming", "done"}
            /\ gh[r].mid \in Errors => (req[r].pc = "done" /\ req[r].result = "err_mid")

\* C3's case: a stream failed after its first chunk, after a failover.
C3_Witness ==
    \E r \in Reqs : gh[r].first = 2 /\ gh[r].mid \in Errors /\ req[r].pc = "done"

\* This step records a success / a failure for account a (the request's
\* history of health records grows by that entry).
RecordedBy(r, a, what) == gh'[r].recs = Append(gh[r].recs, <<a, what>>)

Recorded(a, what) == \E r \in Reqs : RecordedBy(r, a, what)

\* This step records, with resilience enabled, the failure that brings
\* account a's consecutive failures to failure_threshold or beyond.
ReachesThreshold(a) ==
    /\ Recorded(a, "failure")
    /\ Cfg.resilience.enabled
    /\ health'[a].consecutive_failures >= Cfg.resilience.failure_threshold

\* The step opens a's circuit for cool_down_seconds from now.
OpensCircuit(a) ==
    /\ health'[a].circuit_open_until = Cfg.resilience.cool_down_seconds
    /\ ~IsAvailable(health'[a])

\* The time a's circuit still has to stay open has shrunk in this step.
CoolDownShrinks(a) ==
    /\ ~IsAvailable(health[a])
    /\ health'[a].circuit_open_until < health[a].circuit_open_until

\* C4 as stated: with resilience enabled, once failure_threshold consecutive
\* failures have been recorded for an account, is_available is false for it
\* until cool_down_seconds have elapsed since the failure that reached the
\* threshold: the failure opens the circuit for cool_down_seconds, and from
\* then on only the passing of time (or a later such failure, which restarts
\* the cool-down) brings the account nearer to being available.
C4_Original ==
    [][\A a \in Accounts :
          /\ ReachesThreshold(a) => OpensCircuit(a)
          /\ CoolDownShrinks(a) => (Tick \/ Recorded(a, "failure"))]_vars

\* C4, amended: ... until cool_down_seconds have elapsed, unless a success
\* is recorded for the account or the routing config is reloaded meanwhile:
\* either makes the account available at once.
C4_UnavailableForCoolDown ==
    [][\A a \in Accounts :
          /\ ReachesThreshold(a) => OpensCircuit(a)
          /\ CoolDownShrinks(a) =>
                \/ Tick
                \/ Recorded(a, "failure")
                \/ Recorded(a, "success") /\ health'[a] = ZeroState
                \/ epoch' # epoch /\ health'[a] = ZeroState]_vars

\* C4's case: an account reached the threshold, a second of its cool-down
\* has passed and it is still unavailable.
C4_Witness ==
    \E a \in hasState :
        /\ Cfg.resilience.enabled
        /\ health[a].consecutive_failures >= Cfg.resilience.failure_threshold
        /\ health[a].circuit_open_until > 0
        /\ health[a].circuit_open_until < Cfg.resilience.cool_down_seconds
        /\ ~IsAvailable(health[a])

\* C5: a recorded success, from any health state, sets consecutive_failures
\* to 0, clears circuit_open_until (the account is available at once) and
\* clears last_error; a failure recorded next counts as the first one, so
\* failures separated by a success never add up towards failure_threshold.
C5_SuccessResets ==
    [][\A a \in Accounts :
          Recorded(a, "success") =>
              /\ a \in hasState'
              /\ health'[a].consecutive_failures = 0
              /\ health'[a].circuit_open_until = 0
              /\ health'[a].last_error = NoExc
              /\ IsAvailable(health'[a])
              /\ \A e \in Errors :
                    RecordFailure(health'[a], Cfg.resilience, e).consecutive_failures = 1]_vars

\* C5's case: with no reload in between, one request recorded a failure for
\* an account and another then recorded a success for it; the state is reset.
C5_Witness ==
    /\ fileMtime = 0
    /\ \E a \in hasState : \E r, q \in Reqs :
          /\ <<a, "failure">> \in Range(gh[q].recs)
          /\ gh[r].recs # <<>>
          /\ gh[r].recs[Len(gh[r].recs)] = <<a, "success">>
          /\ health[a] = ZeroState

\* How many failures request r has recorded for account a.
FailuresOf(r, a) ==
    Cardinality({k \in 1..Len(gh[r].recs) : gh[r].recs[k] = <<a, "failure">>})

\* The account whose answer request r returned to its caller.
Served(r) == gh[r].log[Len(gh[r].log)][1]

\* C6: in a request that fails over, each account whose attempt failed has
\* its consecutive_failures incremented by exactly one (and its circuit
\* opened if the threshold is reached), the account that finally succeeded
\* has consecutive_failures 0, and the health state of every account the
\* request did not attempt is left unchanged (by the request: the clock and a
\* reload of the config change health state on their own).
C6_FailoverHealthEffect ==
    [][/\ \A r \in Reqs : \A a \in Accounts :
             /\ RecordedBy(r, a, "failure") =>
                   /\ health'[a].consecutive_failures = health[a].consecutive_failures + 1
                   /\ ReachesThreshold(a) => OpensCircuit(a)
             /\ RecordedBy(r, a, "success") => health'[a].consecutive_failures = 0
             /\ FailuresOf(r, a)' <= 1
       /\ \A r \in Reqs :
             (req'[r].pc = "done" /\ req'[r].result = "ok") => FailuresOf(r, Served(r))' = 0
       /\ \A b \in Accounts :
             health'[b] # health[b] =>
                 \/ Tick
                 \/ epoch' # epoch
                 \/ \E r \in Reqs : /\ b \in req[r].tried
                                    /\ RecordedBy(r, b, "failure") \/ RecordedBy(r, b, "success")]_vars

\* C7: a request in flight while the routing config is reloaded never sees
\* a mix of old and new configuration: all the reads of _routing it makes
\* (candidates, account records, resilience settings, client lookup) are of
\* one version, and it never fails because an account of its candidate list
\* is missing from the config it reads.
C7_ConsistentConfig ==
    \A r \in Reqs :
        /\ Cardinality(gh[r].vers) <= 1
        /\ req[r].result # "keyerror"

\* C8: whenever _routing is replaced by a reloaded config, the client map,
\* the round-robin cursor map and the health-state map are cleared in the
\* same step.
C8_ReloadClearsCaches ==
    [][routingMtime' # routingMtime =>
          /\ proxies' = <<>>
          /\ rrKeys' = {}
          /\ hasState' = {}]_vars

\* C9: an old client is closed only after the swap (a closed client is never
\* one of the current generation), and never while a request that obtained
\* it is still using it: a call in flight, a stream not yet fully consumed.
C9_NoCloseWhileInUse ==
    /\ \A a \in Accounts : \A e \in Epochs :
          pobj[a][e].client = "closed" => e < epoch
    /\ \A r \in Reqs :
          req[r].pc \in {"call", "streaming"} => Px(r).client # "closed"

\* C10: concurrent triggers of a credential refresh for one account collapse
\* into one refresh: a caller that had to wait for the account's refresh
\* lock does not perform an exchange with the OAuth collaborator of its own.
C10_SingleFlightRefresh ==
    \A r \in Reqs : gh[r].waited => ~gh[r].exchanged

\* The calls request r dispatched in its attempt j (positions in its log).
CallsOfAttempt(r, j) == {k \in 1..Len(gh[r].log) : gh[r].log[k][3] = j}

\* The calls of _refresh_account_oauth request r made in its attempt j.
RefreshesOfAttempt(r, j) == {k \in 1..Len(gh[r].rf) : gh[r].rf[k] = j}

\* C11: within one attempt on an account, a credential-expired error
\* triggers at most one credential refresh and at most one retry of the same
\* call on the same account (a second call of the attempt goes to the same
\* account and follows an expiry error); a refresh is only ever triggered by
\* an expiry error; after it the attempt ends as a normal failure with no
\* further refresh.  Non-streaming calls and first-chunk pulls alike.
C11_OneRefreshPerAttempt ==
    \A r \in Reqs : \A j \in 0..Len(gh[r].log) :
        /\ Cardinality(RefreshesOfAttempt(r, j)) <= 1
        /\ Cardinality(CallsOfAttempt(r, j)) <= 2
        /\ \A k, m \in CallsOfAttempt(r, j) :
              k < m => /\ gh[r].log[k][1] = gh[r].log[m][1]
                       /\ IsUpstreamTokenExpired(gh[r].log[k][2])
        /\ RefreshesOfAttempt(r, j) # {} =>
              \E k \in CallsOfAttempt(r, j) : IsUpstreamTokenExpired(gh[r].log[k][2])

\* C11's case: the first pull of a stream answered with an expiry error, the
\* refresh (with its exchange) is over, and the attempt is being handled as
\* a failure.
C11_Witness ==
    \E r \in Reqs :
        /\ req[r].stream
        /\ req[r].pc = "fail"
        /\ gh[r].exchanged
        /\ IsUpstreamTokenExpired(gh[r].log[Len(gh[r].log)][2])

\* C12: credential refresh never raises: whatever the exchange with the
\* OAuth collaborator gives, _refresh_account_oauth returns true or false,
\* and the calling request goes on with the failure it had (the expiry
\* error), not with an error of the refresh.
C12_RefreshNeverRaises ==
    \A r \in Reqs :
        /\ req[r].refreshed \in {"-", "true", "false"}
        /\ req[r].exc # "valueerror"

\* How many times account a was picked.
TimesPicked(a) == Cardinality({k \in 1..Len(probe.picks) : probe.picks[k] = a})

\* C13: round-robin selection over a fixed list of N available candidates,
\* called with nothing excluded, returns the candidates in cyclic list order
\* starting from the first; after 2N calls each was returned exactly twice.
C13_RoundRobinCyclic ==
    (/\ probe.strategy = "round_robin"
     /\ probe.mode = "fresh"
     /\ \A a \in Range(probe.cands) : IsAvailable(health[a])) =>
        LET n == Len(probe.cands)
        IN /\ \A k \in 1..Len(probe.picks) :
                 probe.picks[k] = probe.cands[((k - 1) % n) + 1]
           /\ Len(probe.picks) = 2 * n =>
                 \A a \in Range(probe.cands) : TimesPicked(a) = 2

\* C13's case: three available candidates, six calls made.
C13_Witness ==
    /\ probe.strategy = "round_robin"
    /\ probe.mode = "fresh"
    /\ \A a \in Range(probe.cands) : IsAvailable(health[a])
    /\ Len(probe.cands) = 3
    /\ Len(probe.picks) = 6

\* The in-flight count _pick_account reads for account a (0 without a proxy).
InFlightOf(a) == MapProxy(a).in_flight

\* The candidates not yet tried when the pick is made.
Untried == Range(probe.cands) \ PickExclude

\* A least-busy pick is being made in this step.
LeastBusyPick == probe.strategy = "least_busy" /\ probe'.picks # probe.picks

\* The account the step picked.
Picked == probe'.picks[Len(probe'.picks)]

\* C14 as stated: least-busy returns an account whose in-flight count is no
\* greater than that of every candidate not yet tried, whatever the health
\* state of the candidates.
C14_Original ==
    [][LeastBusyPick => \A b \in Untried : InFlightOf(Picked) <= InFlightOf(b)]_vars

\* The candidates a least-busy pick compares: the untried available ones when
\* resilience is enabled and there is one, else the untried ones, else all.
ComparedSet ==
    LET avail == {b \in Untried : IsAvailable(health[b])}
    IN IF Cfg.resilience.enabled /\ avail # {} THEN avail
       ELSE IF Untried # {} THEN Untried
       ELSE Range(probe.cands)

\* C14 (amended): least-busy returns an account of the compared set whose
\* in-flight count is no greater than that of every other account of that set.
C14_LeastBusyAmongPreferred ==
    [][LeastBusyPick =>
          /\ Picked \in ComparedSet
          /\ \A b \in ComparedSet : InFlightOf(Picked) <= InFlightOf(b)]_vars

\* C14's case: a least-busy pick made while an unavailable candidate had
\* fewer calls in flight than the account picked.
C14_Witness ==
    /\ probe.strategy = "least_busy"
    /\ Len(probe.picks) = 1
    /\ Cfg.resilience.enabled
    /\ \E b \in Range(probe.cands) :
          /\ ~IsAvailable(health[b])
          /\ InFlightOf(b) < InFlightOf(probe.picks[1])

\* Request r was routed to a single fixed account (and that account is enabled).
SingleRouted(r) ==
    /\ gh[r].kind = "route"
    /\ gh[r].route.account # NoAcct
    /\ RouteCandidates(Docs[gh[r].doc], gh[r].route) # <<>>

\* C15: on a route with a single fixed account a failure is surfaced after
\* exactly one attempt with no failover, for every resilience setting and
\* every kind of failure: the loop never reaches a second iteration, every
\* call goes to the route's account, and the step handling the failure ends
\* the request with that error.
C15_SingleRouteOneAttempt ==
    [][\A r \in Reqs : SingleRouted(r)' =>
          /\ req'[r].i = 0
          /\ \A k \in 1..Len(gh'[r].log) :
                gh'[r].log[k][1] = gh'[r].route.account /\ gh'[r].log[k][3] = 0
          /\ Cardinality({k \in 1..Len(gh'[r].recs) : gh'[r].recs[k][2] = "failure"}) <= 1
          /\ (req[r].pc = "fail" /\ req'[r] # req[r]) =>
                req'[r].pc = "done" /\ req'[r].result = "err"
          /\ \A e \in ExcNames : \A d \in DocIds :
                StopsAfter(e, Docs[d].resilience, 1, 1)]_vars

\* C15's case: resilience enabled with an extra attempt allowed, a retryable
\* failure on a single-account route, surfaced after that one call.
C15_Witness ==
    \E r \in Reqs :
        /\ SingleRouted(r)
        /\ req[r].pc = "done" /\ req[r].result = "err"
        /\ Cfg.resilience.enabled /\ Cfg.resilience.retry_attempts >= 1
        /\ ~gh[r].reloaded
        /\ Len(gh[r].log) = 1
        /\ is_retryable_exception(gh[r].log[1][2], Cfg.resilience.retry_status_codes)

\* Request r resolves its token in this step (in chat_completions, or again
\* in get_proxy_for_request).
Resolves(r) == req[r].pc \in {"route", "fallback"} /\ req'[r] # req[r]

\* The token of r is missing or not mapped by the configuration.
Unmapped(r) == req[r].token \notin DOMAIN Cfg.keys

\* C16: with auth disabled, or enabled but not required and the token absent
\* or unmapped, the request is never rejected with an authentication error:
\* it resolves via the default route if there is one, else via the legacy
\* single-account fallback; with auth disabled the token presented has no
\* influence on the route.
C16_FallsThroughToDefault ==
    [][\A r \in Reqs :
          (/\ Resolves(r)
           /\ \/ ~Cfg.auth.enabled
              \/ ~Cfg.auth.required /\ Unmapped(r)) =>
             /\ req'[r].result # "401"
             /\ req[r].pc = "route" =>
                   /\ gh'[r].route = Cfg.default
                   /\ IF Cfg.default # NoRoute /\ Candidates(Cfg) # <<>>
                      THEN /\ req'[r].pc = "pick"
                           /\ req'[r].cands = Candidates(Cfg)
                           /\ req'[r].strategy = Cfg.default.strategy
                      ELSE req'[r].pc = "reload" /\ req'[r].ret = "fallback"
             /\ req[r].pc = "fallback" =>
                   /\ req'[r].pc = "done"
                   /\ req'[r].result = IF Cfg.default = NoRoute THEN "fallback" ELSE "direct"
                   /\ Cfg.default = NoRoute => Legacy \in Range(proxies')]_vars

\* C16's case: one request went to the legacy fallback under optional auth
\* without a default route; another, presenting the mapped key while auth is
\* off, is on the default route.
C16_Witness ==
    \E r, q \in Reqs :
        /\ req[r].pc = "done" /\ req[r].result = "fallback"
        /\ Docs[gh[r].doc].auth.enabled /\ ~Docs[gh[r].doc].auth.required
        /\ Active(q) /\ req[q].token = "k1"
        /\ gh[q].kind = "route"
        /\ ~Docs[gh[q].doc].auth.enabled
        /\ gh[q].route = Docs[gh[q].doc].default
        /\ gh[q].route # Docs[gh[q].doc].keys["k1"]

\* C17: with auth enabled and required, a request whose token is missing or
\* unmapped is rejected with an authentication error before any upstream
\* contact: no call, no retry, no change of the health state, the
\* round-robin cursors or the client map.
C17_RejectedBeforeUpstream ==
    [][\A r \in Reqs :
          (Resolves(r) /\ Cfg.auth.enabled /\ Cfg.auth.required /\ Unmapped(r)) =>
             /\ req'[r].pc = "done" /\ req'[r].result = "401"
             /\ gh'[r].log = <<>> /\ gh'[r].recs = <<>> /\ gh'[r].rf = <<>>
             /\ UNCHANGED <<health, hasState, rrIndex, rrKeys, proxies, pobj>>]_vars

\* C17's case: a request was rejected while the gateway held health state
\* and a client for an account.
C17_Witness ==
    \E r \in Reqs :
        /\ req[r].pc = "done" /\ req[r].result = "401"
        /\ gh[r].kind = "reject"
        /\ hasState # {}
        /\ proxies # <<>>

\* C18: every non-streaming response returned from an available account
\* carries a non-null usage object, whether the upstream payload has usage,
\* omits it, or carries it as null.
C18_UsageNeverNull ==
    probe.stage = "returned" => probe.result.usage \in {"object", "zeros"}

\* The connection-level failures: timeout, connect, read, network.
ConnectionLevel == {"timeout", "connerr", "readerr", "neterr", "timeout400", "neterr503"}

\* C19: the classifier answers true for every connection-level failure
\* whatever status it carries; for any other error it answers true exactly
\* when the error carries a status that is in the configured set; an error
\* with no status that is not a network failure is not retryable.
C19_Classifier ==
    probe.classified =>
        LET status == get_http_status_code(probe.exc)
        IN /\ probe.exc \in ConnectionLevel => probe.retryable
           /\ probe.exc \notin ConnectionLevel =>
                 (probe.retryable <=> (status # 0 /\ status \in probe.codes))
           /\ (probe.exc \notin ConnectionLevel /\ status = 0) => ~probe.retryable

\* C19's case: a timeout carrying a status outside the configured set has
\* been classified retryable.
C19_Witness ==
    /\ probe.classified
    /\ probe.exc = "timeout400"
    /\ 400 \notin probe.codes
    /\ probe.retryable

\* The route names a single account.
HasSingle(route) == route.account \notin {NoAcct, ""}

\* The route names a non-empty pool.
HasPool(route) == route.accounts # <<>>

\* The account ids the route refers to.
Refers(route) == IF HasSingle(route) THEN {route.account} ELSE Range(route.accounts)

\* C20: every configuration accepted by load_routing_config, and so every
\* configuration that becomes the in-memory one, has in each route of keys
\* and in default exactly one of {single account, non-empty pool}, and every
\* account id a route refers to exists in the account set.
C20_AcceptedIsValid ==
    (probe.stage = "accepted" \/ probe.memory = "new") =>
        \A route \in RawRoutesOf(probe.doc) :
            /\ HasSingle(route) # HasPool(route)
            /\ Refers(route) \subseteq probe.doc.accounts

\* C21: whenever the routing store is loaded, at startup or on a hot reload,
\* and the document has a configuration error, the error is surfaced as a
\* server-side error and is never silently dropped.
C21_LoadErrorSurfaced ==
    (LoadRaises(probe.doc) /\ probe.stage \notin {"file", "rejected"}) => probe.surfaced

\* C22: when the configuration comes from the inline-JSON source the store
\* is read-only: no operation ever writes a routing file, not even a
\* temporary one.
C22_InlineStoreReadOnly ==
    probe.source = "inline" =>
        \A x \in Savers : probe.sv[x].pc \in {"idle", "skipped"} /\ probe.sv[x].tmp = "none"

\* The complete documents a file can hold.
CompleteDocs == {"d0"} \cup {DocOf(x) : x \in Savers}

\* C24: a reader loading the store at any moment during concurrent saves
\* finds the complete previous document or a complete new one (or no file,
\* or the inline document), never partial content.
C24_ReaderSeesCompleteDocument ==
    probe.seen \subseteq CompleteDocs \cup {"none", "env"}

\* C24's case: a reader has found the previous document and a new one
\* while a save has written part of its payload.
C24_Witness ==
    /\ "d0" \in probe.seen
    /\ \E x \in Savers : DocOf(x) \in probe.seen
    /\ \E x \in Savers : probe.sv[x].tmp = "part"

\* The string str contains the string part.
Contains(str, part) ==
    \E k \in 1..(Len(str) - Len(part) + 1) : SubSeq(str, k, k + Len(part) - 1) = part

\* C23: for every credential, of any length, the diagnostics summary never
\* contains the full credential; only a masked tail is shown.
C23_SummaryHidesCredential ==
    (probe.summarized /\ probe.api_key # <<>>) =>
        ~Contains(probe.api_key_mask, probe.api_key)

\* C25: after a failed attempt the orchestrator goes on to another account
\* only if resilience is enabled, the classifier deems the failure retryable
\* and a candidate not yet tried remains; in every other case the loop stops
\* there.
C25_FailoverOnlyWhenRetryable ==
    [][\A r \in Reqs :
          (req[r].pc = "fail" /\ req'[r].pc \in {"pick", "backoff"})
          => /\ Cfg.resilience.enabled
             /\ is_retryable_exception(req[r].exc, Cfg.resilience.retry_status_codes)
             /\ Range(req[r].cands) \ req[r].tried # {}]_vars

\* C26: within one request no account is dispatched to in two different
\* attempts (a retry on the same account within one attempt, after a
\* refresh, aside), whatever the pool list, one naming an account id more
\* than once included.
C26_NoAccountTwice ==
    \A r \in Reqs :
        \A j, k \in 1..Len(gh[r].log) :
            (gh[r].log[j][3] # gh[r].log[k][3]) => (gh[r].log[j][1] # gh[r].log[k][1])

C28_OpenOnlyAsLastResort ==
    [][(Cfg.resilience.enabled /\ probe'.picks # probe.picks
            /\ ~IsAvailable(health[Picked]))
       => /\ \A a \in Untried : ~IsAvailable(health[a])
          /\ Picked \in (IF Untried # {} THEN Untried ELSE Range(probe.cands))]_vars

\* C28's case: within one request, with resilience enabled, the available
\* candidate was picked first and the one with an open circuit second.
C28_Witness ==
    /\ Cfg.resilience.enabled
    /\ probe.mode = "request"
    /\ Len(probe.cands) >= 2
    /\ Len(probe.picks) = 2
    /\ IsAvailable(health[probe.picks[1]])
    /\ ~IsAvailable(health[probe.picks[2]])

\* The attempt of request r that is being handled began with an expiry error.
ExpiryAttempt(r) ==
    \E k \in 1..Len(gh[r].log) :
        /\ gh[r].log[k][3] = req[r].i
        /\ IsUpstreamTokenExpired(gh[r].log[k][2])

\* C29: an attempt whose expiry error was not cured is handled as a
\* transient error: with resilience enabled, the expiry status among the
\* retryable ones and a candidate not yet tried remaining, the request goes
\* on to another account instead of ending with the error.
C29_UncuredExpiryFailsOver ==
    [][\A r \in Reqs :
          (/\ req[r].pc = "fail" /\ req'[r].pc # "fail"
           /\ ExpiryAttempt(r)
           /\ Cfg.resilience.enabled
           /\ get_http_status_code("e439") \in Cfg.resilience.retry_status_codes
           /\ Range(req[r].cands) \ req[r].tried # {})
          => req'[r].pc \in {"pick", "backoff"}]_vars

\* The calls of the client that are past the gate.
PastGate == {k \in GateCalls : probe.calls[k].pc \in {"in", "yielded"}}

\* C30: within one Upstream Client the in-flight counter equals the number
\* of calls past the gate; with a limit it stays within 0..maxConcurrency
\* and the free permits are the rest of the capacity; a streaming call is
\* counted from its first pull until its body is over and not before; and
\* whichever way the calls ended, the counter is 0 and the whole capacity is
\* free when none is past the gate.
C30_CounterMatchesGate ==
    LET p == probe.p
    IN /\ p.in_flight = Cardinality(PastGate)
       /\ p.cap > 0 => (p.in_flight \in 0..p.cap /\ p.value = p.cap - p.in_flight)
       /\ \A k \in GateCalls : probe.calls[k].pc = "created" => k \notin PastGate
       /\ PastGate = {} => (p.in_flight = 0 /\ p.value = p.cap)

\* C30's case: under a limit of 1, three calls are over, one completed, one
\* failed upstream and one was cancelled past the gate, one of them a stream.
C30_Witness ==
    /\ probe.p.cap = 1
    /\ \A k \in GateCalls : probe.calls[k].pc = "done"
    /\ \A o \in {"ok", "error", "cancel"} : \E k \in GateCalls : probe.calls[k].how = o
    /\ \E k \in GateCalls : probe.calls[k].stream /\ probe.calls[k].how = "cancel"

\* C31: under any interleaving of requests, a round-robin selection reads
\* the cursor of its candidate list and advances it in one step: the account
\* picked is the one under the cursor, the cursor moves on by one modulo the
\* size of the pool chosen from (the N candidates when all are available and
\* untried), no other cursor moves, and a cursor changes in no step but a
\* selection or a reload.
C31_CursorAdvancesOnce ==
    [][/\ \A r \in Reqs :
            (/\ req[r].pc = "pick" /\ req'[r].pc = "acquire"
             /\ req[r].strategy = "round_robin")
            => LET c == req[r].cands
                   pool == PickPool(c, req[r].tried)
               IN /\ req'[r].acct = pool[(rrIndex[c] % Len(pool)) + 1]
                  /\ rrIndex'[c] = (rrIndex[c] + 1) % Len(pool)
                  /\ \A k \in DOMAIN rrIndex : k # c => rrIndex'[k] = rrIndex[k]
       /\ rrIndex' # rrIndex =>
              \E r \in Reqs : cur = r /\ req[r].pc \in {"pick", "fallback", "reload"}]_vars

\* C31's case: two requests over the same round-robin pool of two are both
\* awaiting their upstream call, each on its own account, and the cursor has
\* come round to where it began.
C31_Witness ==
    /\ req[1].pc = "call" /\ req[2].pc = "call"
    /\ req[1].strategy = "round_robin" /\ req[2].strategy = "round_robin"
    /\ req[1].cands = req[2].cands
    /\ Len(req[1].cands) = 2
    /\ req[1].i = 0 /\ req[2].i = 0
    /\ req[1].acct # req[2].acct
    /\ rrIndex[req[1].cands] = 0

\* Account a is enabled in the configuration in effect.
EnabledNow(a) == a \in DOMAIN Cfg.accounts /\ Cfg.accounts[a].enabled

\* C32: a request on a pool route is dispatched to a disabled account only
\* if every account of the pool is disabled: the loop never dispatches to a
\* disabled account while the pool has an enabled one, and with none enabled
\* the request is served from the unfiltered list instead of being refused.
C32_DisabledOnlyWhenAllDisabled ==
    [][\A r \in Reqs :
          /\ (/\ req[r].pc = "pick" /\ req'[r].pc = "acquire"
              /\ gh[r].route.account = NoAcct
              /\ \E b \in Range(gh[r].route.accounts) : EnabledNow(b))
             => EnabledNow(req'[r].acct)
          /\ (/\ req[r].pc = "fallback" /\ req'[r].pc = "done"
              /\ gh[r].kind = "route" /\ gh[r].route.account = NoAcct)
             => LET up == UpstreamOfPool(gh[r].route)
                IN /\ req'[r].result = "direct"
                   /\ up.acct \in Range(gh[r].route.accounts)
                   /\ (\E b \in Range(gh[r].route.accounts) : EnabledNow(b))
                         => EnabledNow(up.acct)]_vars

\* C33: once a refresh whose exchange gave a new credential is over, the new
\* credential is in the routing file (when there is one) and in the
\* account's client, and every upstream call issued for the account
\* afterwards uses it.
C33_NewCredentialEverywhere ==
    (probe.pc = "done" /\ probe.x = "ok") =>
        /\ probe.path => probe.fkey = NewKey
        /\ probe.hasProxy => probe.pkey = NewKey
        /\ \A j \in 1..Len(probe.used) : probe.used[j] = NewKey

\* C34: with strict model verification the caller is handed no part of a
\* response, body or chunk, that names another model than the one requested,
\* and no success is recorded for a response one of whose parts does.
C34_NoOtherModelHanded ==
    LET other(m) == m # NoModel /\ ~ModelStrictMatch(probe.requested, m)
    IN /\ \A j \in 1..Len(probe.handed) : ~other(probe.handed[j])
       /\ probe.recorded = "success" =>
              \A j \in 1..Len(probe.response) : ~other(probe.response[j])

\* C35: an error surfaced by the chat-completions endpoint carries the
\* best-available status: 401 for an auth rejection and the upstream's own
\* status for an upstream HTTP error.
C35_BestAvailableStatus ==
    probe.pc = "done" =>
        /\ probe.kind = "auth" => probe.out = 401
        /\ probe.kind = "upstream" => probe.out = probe.status

\* C36: an account's circuit is open only if resilience is enabled in the
\* configuration in effect and the account's consecutive failures are at
\* least the failure threshold of that configuration; the count is never
\* negative.
C36_OpenCircuitJustified ==
    \A a \in Accounts :
        /\ health[a].consecutive_failures >= 0
        /\ ~IsAvailable(health[a]) =>
              /\ Cfg.resilience.enabled
              /\ health[a].consecutive_failures >= Cfg.resilience.failure_threshold

\* The step records a success (a failure) for account a.
RecordsInStep(a, what) ==
    \E r \in Reqs :
        /\ Len(gh'[r].recs) = Len(gh[r].recs) + 1
        /\ gh'[r].recs[Len(gh'[r].recs)] = <<a, what>>

\* C37: the end of a cool-down does not reset the failure count: when the
\* circuit of an account closes by the passing of time the count is
\* unchanged and still at or above the failure threshold; the next failure
\* recorded for such an account opens the circuit again for the whole
\* cool_down_seconds; and the count goes down only to 0, by a recorded
\* success or by a reload.
C37_CoolDownKeepsCount ==
    [][\A a \in Accounts :
          LET st == health[a]
              st1 == health'[a]
              th == Cfg.resilience.failure_threshold
          IN /\ (/\ ~IsAvailable(st) /\ IsAvailable(st1)
                 /\ ~RecordsInStep(a, "success") /\ epoch' = epoch)
                => /\ st1.consecutive_failures = st.consecutive_failures
                   /\ st1.consecutive_failures >= Cfg'.resilience.failure_threshold
                   /\ Cfg'.resilience.enabled
             /\ (/\ IsAvailable(st) /\ st.consecutive_failures >= th
                 /\ Cfg.resilience.enabled
                 /\ RecordsInStep(a, "failure") /\ epoch' = epoch)
                => st1.circuit_open_until = Cfg.resilience.cool_down_seconds
             /\ st1.consecutive_failures < st.consecutive_failures
                => /\ st1.consecutive_failures = 0
                   /\ RecordsInStep(a, "success") \/ epoch' # epoch]_vars

\* Request r is abandoned in this step.
Abandoned(r) ==
    /\ req[r].pc \in CancelPoints
    /\ req'[r].pc = "done"
    /\ req'[r].result = "cancelled"

\* C38: when the caller abandons a request, neither a success nor a failure
\* is recorded: the abandonment leaves consecutive_failures,
\* circuit_open_until and last_error of every account as they were, and
\* adds no record to those the request made in its earlier attempts.
C38_AbandonRecordsNothing ==
    [][\A r \in Reqs :
          Abandoned(r)
          => /\ health' = health
             /\ gh'[r].recs = gh[r].recs]_vars

\* A committed stream was closed before its end while its account had
\* failures on record, and they are still on record.
C38_Witness ==
    \E r \in Reqs :
        /\ req[r].result = "cancelled"
        /\ gh[r].mid = "closed"
        /\ gh[r].first > 0
        /\ health[gh[r].log[gh[r].first][1]].consecutive_failures > 0

\* The refresh of request r, its exchange with the OAuth collaborator made,
\* ends in this step.
RefreshEnds(r) == req[r].pc = "rclose" /\ req'[r].pc # "rclose"

C40_DeleteLeavesValidDocument ==
    /\ probe.stage \in {"deleted", "adopted", "kept", "sent"}
       => ~validate_routes_raises(probe.file)
    /\ probe.stage \in {"adopted", "kept", "sent"} => probe.memory = probe.file
    /\ probe.stage = "sent" => probe.sent # probe.deleted

====
